---- MODULE Spec2Model ----
(***************************************************************************)
(* The analytics engines of the finance tracker (backend/app/ml): the      *)
(* spending forecast, the financial health score and the spending          *)
(* insights, over the transactions table they read.                        *)
(*                                                                         *)
(* Numbers.  Amounts are whole currency units (the code takes              *)
(* abs(float(txn.amount))); every derived real number is kept exact as a   *)
(* normalised fraction [n, d], and a standard deviation is kept as its     *)
(* square (the variance), so each threshold test of the code is decided    *)
(* exactly.  Dates are [m, d]: m counts months from January 2025 (1..24    *)
(* covers 2025 and 2026, neither a leap year), d is the day of the month.  *)
(***************************************************************************)
EXTENDS Integers, Sequences, FiniteSets, TLC

VARIABLES
    db,      \* the transactions table of one user (a multiset, kept in a canonical order)
    resp     \* the response of the request in progress, [op |-> "none"] between requests

vars == <<db, resp>>

-----------------------------------------------------------------------------
(* Bounds of the model *)

\* number of transactions a history built by create_transaction may reach
MaxTxns == 2
\* number of months of the monthly income/expense histories
MaxMonths == 12
\* number of spending days of the daily-spending histories
MaxDays == 21
\* number of further, larger categories next to the category of a monthly series
MaxExtraCats == 5

-----------------------------------------------------------------------------
(* Arithmetic helpers *)

Abs(x) == IF x < 0 THEN -x ELSE x

Max2(a, b) == IF a >= b THEN a ELSE b

Min2(a, b) == IF a <= b THEN a ELSE b

RECURSIVE GCD(_, _)
GCD(a, b) == IF b = 0 THEN a ELSE GCD(b, a % b)

\* the fraction n/d (d # 0) in lowest terms with a positive denominator
Frac(n, d) ==
    LET g == GCD(Abs(n), Abs(d))
        s == IF d < 0 THEN -1 ELSE 1
    IN  [n |-> (s * n) \div g, d |-> (s * d) \div g]

FracInt(k) == [n |-> k, d |-> 1]

FracLe(a, b) == a.n * b.d <= b.n * a.d

FracLt(a, b) == a.n * b.d < b.n * a.d

FracAdd(a, b) == Frac(a.n * b.d + b.n * a.d, a.d * b.d)

\* s[lo] + ... + s[hi]
RECURSIVE SumRange(_, _, _)
SumRange(s, lo, hi) ==
    IF lo > hi THEN 0
    ELSE IF lo = hi THEN s[lo]
    ELSE LET mid == (lo + hi) \div 2
         IN  SumRange(s, lo, mid) + SumRange(s, mid + 1, hi)

SeqSum(s) == SumRange(s, 1, Len(s))

\* ceil(a / b) for a >= 0, b > 0
CeilDiv(a, b) == (a + b - 1) \div b

\* the sequence a function on 1..n is, with its elements computed once
AsSeq(f) == f \o <<>>

\* the distinct elements of s in the order of their first occurrence
\* (the key order of a Python dict filled by one pass over s)
KeysInOrder(s) ==
    LET t == AsSeq(s)
        firsts == {i \in 1..Len(t) : \A j \in 1..(i - 1) : t[j] # t[i]}
        place == AsSeq([i \in 1..Len(t) |-> Cardinality({j \in firsts : j <= i})])
    IN  AsSeq([p \in 1..Cardinality(firsts) |-> t[CHOOSE i \in firsts : place[i] = p]])

\* s sorted by ascending key, keys[i] being the key of s[i]; elements of equal
\* key keep their order (a stable sort)
StableSort(s, keys) ==
    LET t == AsSeq(s)
        ks == AsSeq(keys)
        n == Len(t)
        rank == AsSeq([i \in 1..n |-> Cardinality({j \in 1..n :
                        ks[j] < ks[i] \/ (ks[j] = ks[i] /\ j < i)}) + 1])
    IN  AsSeq([p \in 1..n |-> t[CHOOSE i \in 1..n : rank[i] = p]])

Range(s) == {s[i] : i \in 1..Len(s)}

\* n^2 * variance(ys) for n = Len(ys), written as the sum of the squared pairwise
\* differences (equal to n * sum(y^2) - sum(y)^2, without its large intermediate terms)
PairwiseSq(ys) ==
    LET n == Len(ys)
        row(i) == SeqSum([j \in 1..(n - i) |-> (ys[i] - ys[i + j]) * (ys[i] - ys[i + j])])
    IN  SeqSum([i \in 1..n |-> row(i)])

\* np.std(ys) ** 2 (population variance)
Variance(ys) == Frac(PairwiseSq(ys), Len(ys) * Len(ys))

\* round(a / b, 1) * 10 for a >= 0, b > 0: Python rounds the exact tie to the even digit
RoundHalfEven(a, b) ==
    LET q == a \div b
        r == a % b
    IN  IF 2 * r < b THEN q
        ELSE IF 2 * r > b THEN q + 1
        ELSE IF q % 2 = 0 THEN q ELSE q + 1

\* np.log2(k) * 10^6 for k in 1..16
Log2Micro == <<0, 1000000, 1584963, 2000000, 2321928, 2584963, 2807355, 3000000,
               3169925, 3321928, 3459432, 3584963, 3700440, 3807355, 3906891, 4000000>>

-----------------------------------------------------------------------------
(* Calendar *)

MonthLengths == <<31, 28, 31, 30, 31, 30, 31, 31, 30, 31, 30, 31>>

DaysInMonth(m) == MonthLengths[((m - 1) % 12) + 1]

\* date(2024, 12, 31).toordinal()
EpochOrdinal == 739251

\* date.max.toordinal(), i.e. 9999-12-31
MaxOrdinal == 3652059

\* the days of the months before month m
DaysBefore(m) == SeqSum([k \in 1..(m - 1) |-> DaysInMonth(k)])

\* date.toordinal()
Ordinal(dt) == EpochOrdinal + DaysBefore(dt.m) + dt.d

\* date.weekday(), Monday = 0
Weekday(dt) == (Ordinal(dt) + 6) % 7

\* txn.date.replace(day=1): the month bucket of a date
MonthKey(dt) == dt.m

\* the day the requests are served: 2026-11-15, some time after midnight
Today == [m |-> 23, d |-> 15]

-----------------------------------------------------------------------------
(* Transactions *)

\* custom_category is NULL (or empty): falsy in `custom_category or ...`
NoCat == ""

Amt(t) == Abs(t.amount)

\* txn.custom_category or (txn.category[0] if txn.category else "Other")
CategoryOf(t) ==
    IF t.custom_category # NoCat THEN t.custom_category
    ELSE IF t.category # <<>> THEN t.category[1]
    ELSE "Other"

\* a transaction with the name (the description on the statement) it carries
NamedTxn(type, amount, dt, custom, cat, name) ==
    [transaction_type |-> type, amount |-> amount, date |-> dt,
     custom_category |-> custom, category |-> cat, name |-> name]

Txn(type, amount, dt, custom, cat) == NamedTxn(type, amount, dt, custom, cat, "Payment")

IsDebit(t) == t.transaction_type = "debit"

IsCredit(t) == t.transaction_type = "credit"

Debits(txns) == SelectSeq(txns, IsDebit)

\* stable sort of txns by date (ascending or descending); rows of one date keep
\* their table order
SortByDate(txns, asc) ==
    StableSort(txns, [i \in 1..Len(txns) |->
        IF asc THEN Ordinal(txns[i].date) ELSE -Ordinal(txns[i].date)])

\* Transaction.date >= utcnow() - timedelta(days): the DATE column is compared
\* as midnight with a timestamp later in the day, so the day exactly `days`
\* back is outside the window
InWindow(t, days) == Ordinal(t.date) > Ordinal(Today) - days

-----------------------------------------------------------------------------
(* Category detection from names (backend/app/api/transactions.py,          *)
(* finance_tracker/transactions/utils.py).  A text is the sequence of its   *)
(* characters.                                                              *)

\* the characters of the labels and transaction names the model uses
Spell ==
    "Food & Dining" :> <<"F", "o", "o", "d", " ", "&", " ", "D", "i", "n", "i", "n", "g">>
    @@ "Transportation" :> <<"T", "r", "a", "n", "s", "p", "o", "r", "t", "a", "t", "i", "o", "n">>
    @@ "Shopping" :> <<"S", "h", "o", "p", "p", "i", "n", "g">>
    @@ "Entertainment" :> <<"E", "n", "t", "e", "r", "t", "a", "i", "n", "m", "e", "n", "t">>
    @@ "Health & Fitness" :> <<"H", "e", "a", "l", "t", "h", " ", "&", " ", "F", "i", "t", "n", "e", "s", "s">>
    @@ "Utilities & Bills" :> <<"U", "t", "i", "l", "i", "t", "i", "e", "s", " ", "&", " ", "B", "i", "l", "l", "s">>
    @@ "Banking & Finance" :> <<"B", "a", "n", "k", "i", "n", "g", " ", "&", " ", "F", "i", "n", "a", "n", "c", "e">>
    @@ "Income" :> <<"I", "n", "c", "o", "m", "e">>
    @@ "Other" :> <<"O", "t", "h", "e", "r">>
    @@ "Food & Drink" :> <<"F", "o", "o", "d", " ", "&", " ", "D", "r", "i", "n", "k">>
    @@ "Transport" :> <<"T", "r", "a", "n", "s", "p", "o", "r", "t">>
    @@ "Groceries" :> <<"G", "r", "o", "c", "e", "r", "i", "e", "s">>
    @@ "Housing" :> <<"H", "o", "u", "s", "i", "n", "g">>
    @@ "Uncategorized" :> <<"U", "n", "c", "a", "t", "e", "g", "o", "r", "i", "z", "e", "d">>
    @@ "Payment" :> <<"P", "a", "y", "m", "e", "n", "t">>
    @@ "Starbucks" :> <<"S", "t", "a", "r", "b", "u", "c", "k", "s">>
    @@ "STARBUCKS #123" :> <<"S", "T", "A", "R", "B", "U", "C", "K", "S", " ", "#", "1", "2", "3">>
    @@ "Uber Eats" :> <<"U", "b", "e", "r", " ", "E", "a", "t", "s">>
    @@ "Gas Bill" :> <<"G", "a", "s", " ", "B", "i", "l", "l">>
    @@ "Rent" :> <<"R", "e", "n", "t">>

\* str.lower()
Lower(s) ==
    LET upper == <<"A", "B", "C", "D", "E", "F", "G", "H", "I", "J", "K", "L", "M",
                   "N", "O", "P", "Q", "R", "S", "T", "U", "V", "W", "X", "Y", "Z">>
        lower == <<"a", "b", "c", "d", "e", "f", "g", "h", "i", "j", "k", "l", "m",
                   "n", "o", "p", "q", "r", "s", "t", "u", "v", "w", "x", "y", "z">>
        lowerChar(c) == IF \E i \in 1..26 : upper[i] = c
                        THEN lower[CHOOSE i \in 1..26 : upper[i] = c] ELSE c
    IN  AsSeq([i \in 1..Len(s) |-> lowerChar(s[i])])

\* word in s (substring)
Contains(s, word) ==
    \E i \in 0..(Len(s) - Len(word)) : SubSeq(s, i + 1, i + Len(word)) = word

\* the label of the first rule one of whose words is in the lowered text
FirstRule(rs, text, fallback) ==
    LET lowered == Lower(text)
        hits == {k \in 1..Len(rs) :
                    \E w \in 1..Len(rs[k].words) : Contains(lowered, rs[k].words[w])}
    IN  IF hits = {} THEN fallback
        ELSE rs[CHOOSE k \in hits : \A h \in hits : k <= h].label

\* the keyword lists of detect_category_from_name, in the order they are tried
NameRules ==
    <<[label |-> "Food & Dining",
       words |-> <<<<"m", "c", "d", "o", "n", "a", "l", "d">>,
                   <<"s", "t", "a", "r", "b", "u", "c", "k", "s">>,
                   <<"r", "e", "s", "t", "a", "u", "r", "a", "n", "t">>,
                   <<"c", "a", "f", "e">>, <<"p", "i", "z", "z", "a">>,
                   <<"b", "u", "r", "g", "e", "r">>, <<"f", "o", "o", "d">>,
                   <<"d", "i", "n", "i", "n", "g">>, <<"g", "r", "u", "b", "h", "u", "b">>,
                   <<"d", "o", "o", "r", "d", "a", "s", "h">>,
                   <<"u", "b", "e", "r", " ", "e", "a", "t", "s">>,
                   <<"p", "o", "s", "t", "m", "a", "t", "e", "s">>>>],
      [label |-> "Transportation",
       words |-> <<<<"u", "b", "e", "r">>, <<"l", "y", "f", "t">>, <<"t", "a", "x", "i">>,
                   <<"g", "a", "s">>, <<"s", "h", "e", "l", "l">>,
                   <<"e", "x", "x", "o", "n">>, <<"c", "h", "e", "v", "r", "o", "n">>,
                   <<"b", "p">>, <<"p", "a", "r", "k", "i", "n", "g">>,
                   <<"t", "o", "l", "l">>, <<"m", "e", "t", "r", "o">>, <<"b", "u", "s">>,
                   <<"t", "r", "a", "i", "n">>, <<"a", "i", "r", "l", "i", "n", "e">>>>],
      [label |-> "Shopping",
       words |-> <<<<"a", "m", "a", "z", "o", "n">>, <<"w", "a", "l", "m", "a", "r", "t">>,
                   <<"t", "a", "r", "g", "e", "t">>, <<"c", "o", "s", "t", "c", "o">>,
                   <<"b", "e", "s", "t", " ", "b", "u", "y">>,
                   <<"h", "o", "m", "e", " ", "d", "e", "p", "o", "t">>,
                   <<"l", "o", "w", "e", "s">>, <<"m", "a", "c", "y">>,
                   <<"n", "o", "r", "d", "s", "t", "r", "o", "m">>, <<"s", "h", "o", "p">>>>],
      [label |-> "Entertainment",
       words |-> <<<<"n", "e", "t", "f", "l", "i", "x">>,
                   <<"s", "p", "o", "t", "i", "f", "y">>, <<"h", "u", "l", "u">>,
                   <<"d", "i", "s", "n", "e", "y">>, <<"m", "o", "v", "i", "e">>,
                   <<"t", "h", "e", "a", "t", "e", "r">>,
                   <<"c", "o", "n", "c", "e", "r", "t">>, <<"g", "a", "m", "e">>,
                   <<"s", "t", "e", "a", "m">>,
                   <<"p", "l", "a", "y", "s", "t", "a", "t", "i", "o", "n">>>>],
      [label |-> "Health & Fitness",
       words |-> <<<<"g", "y", "m">>, <<"f", "i", "t", "n", "e", "s", "s">>,
                   <<"p", "h", "a", "r", "m", "a", "c", "y">>, <<"c", "v", "s">>,
                   <<"w", "a", "l", "g", "r", "e", "e", "n", "s">>,
                   <<"d", "o", "c", "t", "o", "r">>, <<"m", "e", "d", "i", "c", "a", "l">>,
                   <<"d", "e", "n", "t", "a", "l">>, <<"v", "i", "s", "i", "o", "n">>,
                   <<"h", "e", "a", "l", "t", "h">>>>],
      [label |-> "Utilities & Bills",
       words |-> <<<<"e", "l", "e", "c", "t", "r", "i", "c">>,
                   <<"g", "a", "s", " ", "b", "i", "l", "l">>, <<"w", "a", "t", "e", "r">>,
                   <<"i", "n", "t", "e", "r", "n", "e", "t">>, <<"p", "h", "o", "n", "e">>,
                   <<"c", "a", "b", "l", "e">>, <<"a", "t", "&", "t">>,
                   <<"v", "e", "r", "i", "z", "o", "n">>,
                   <<"c", "o", "m", "c", "a", "s", "t">>,
                   <<"s", "p", "e", "c", "t", "r", "u", "m">>>>],
      [label |-> "Banking & Finance",
       words |-> <<<<"b", "a", "n", "k">>, <<"a", "t", "m">>,
                   <<"c", "r", "e", "d", "i", "t", " ", "c", "a", "r", "d">>,
                   <<"l", "o", "a", "n">>, <<"m", "o", "r", "t", "g", "a", "g", "e">>,
                   <<"i", "n", "s", "u", "r", "a", "n", "c", "e">>>>],
      [label |-> "Income",
       words |-> <<<<"d", "e", "p", "o", "s", "i", "t">>, <<"s", "a", "l", "a", "r", "y">>,
                   <<"p", "a", "y", "r", "o", "l", "l">>, <<"r", "e", "f", "u", "n", "d">>,
                   <<"t", "r", "a", "n", "s", "f", "e", "r", " ", "i", "n">>>>]>>

detect_category_from_name(name) == FirstRule(NameRules, name, "Other")

\* the keyword lists of categorize, in the order they are tried
DescriptionRules ==
    <<[label |-> "Food & Drink",
       words |-> <<<<"c", "o", "f", "f", "e", "e">>,
                   <<"s", "t", "a", "r", "b", "u", "c", "k", "s">>>>],
      [label |-> "Transport",
       words |-> <<<<"u", "b", "e", "r">>, <<"l", "y", "f", "t">>>>],
      [label |-> "Shopping",
       words |-> <<<<"a", "m", "a", "z", "o", "n">>>>],
      [label |-> "Groceries",
       words |-> <<<<"g", "r", "o", "c", "e", "r", "y">>, <<"m", "a", "r", "k", "e", "t">>>>],
      [label |-> "Housing",
       words |-> <<<<"r", "e", "n", "t">>, <<"a", "p", "a", "r", "t", "m", "e", "n", "t">>>>],
      [label |-> "Income",
       words |-> <<<<"s", "a", "l", "a", "r", "y">>,
                   <<"p", "a", "y", "c", "h", "e", "c", "k">>>>]>>

categorize(description) == FirstRule(DescriptionRules, description, "Uncategorized")

-----------------------------------------------------------------------------
(* FinancialHealthService (backend/app/ml/health_score.py) *)

\* the months that have a transaction (the keys of monthly_data)
MonthsOf(txns) == {MonthKey(txns[i].date) : i \in 1..Len(txns)}

\* sum of data["income"]: the credit transactions
TotalIncome(txns) ==
    SeqSum([i \in 1..Len(txns) |-> IF IsCredit(txns[i]) THEN Amt(txns[i]) ELSE 0])

\* sum of data["expenses"]: the else branch, every transaction that is not a credit
TotalExpenses(txns) ==
    SeqSum([i \in 1..Len(txns) |-> IF IsCredit(txns[i]) THEN 0 ELSE Amt(txns[i])])

\* monthly_expenses of the debit transactions, as the list of the month totals in
\* month order
MonthlyDebitTotals(txns) ==
    LET deb == Debits(txns)
        months == MonthsOf(deb)
        total(m) == SeqSum([i \in 1..Len(deb) |->
                        IF MonthKey(deb[i].date) = m THEN Amt(deb[i]) ELSE 0])
        RECURSIVE asc(_)
        asc(ms) == IF ms = {} THEN <<>>
                   ELSE LET m == CHOOSE x \in ms : \A y \in ms : x <= y
                        IN  <<total(m)>> \o asc(ms \ {m})
    IN  asc(months)

calculate_income_expense_ratio(txns) ==
    LET nMonths == Cardinality(MonthsOf(txns))
        total_income == TotalIncome(txns)
        total_expenses == TotalExpenses(txns)
        ratio == Frac(total_expenses, total_income)
        band == IF FracLe(ratio, Frac(5, 10)) THEN <<100, "excellent">>
                ELSE IF FracLe(ratio, Frac(7, 10)) THEN <<80, "good">>
                ELSE IF FracLe(ratio, Frac(9, 10)) THEN <<60, "fair">>
                ELSE IF FracLe(ratio, Frac(11, 10)) THEN <<40, "concerning">>
                ELSE <<20, "critical">>
    IN  IF nMonths = 0
        THEN [score |-> 0, ratio |-> FracInt(0), status |-> "insufficient_data"]
        ELSE IF total_income = 0
        THEN [score |-> 0, ratio |-> FracInt(0), status |-> "no_income"]
        ELSE [score |-> band[1], ratio |-> ratio, status |-> band[2],
              monthly_income |-> Frac(total_income, nMonths),
              monthly_expenses |-> Frac(total_expenses, nMonths)]

\* fault injection for C7: calculate_savings_rate with each band bound taken
\* strictly (rate > 0.2 instead of rate >= 0.2)
calculate_savings_rate_strict(txns) ==
    LET nMonths == Cardinality(MonthsOf(txns))
        total_income == TotalIncome(txns)
        total_expenses == TotalExpenses(txns)
        savings_rate == Frac(total_income - total_expenses, total_income)
        band == IF FracLt(Frac(3, 10), savings_rate) THEN <<100, "excellent">>
                ELSE IF FracLt(Frac(2, 10), savings_rate) THEN <<85, "very_good">>
                ELSE IF FracLt(Frac(1, 10), savings_rate) THEN <<70, "good">>
                ELSE IF FracLt(FracInt(0), savings_rate) THEN <<50, "fair">>
                ELSE <<20, "negative">>
    IN  IF nMonths = 0
        THEN [score |-> 0, rate |-> FracInt(0), status |-> "insufficient_data"]
        ELSE IF total_income = 0
        THEN [score |-> 0, rate |-> FracInt(0), status |-> "no_income"]
        ELSE [score |-> band[1], rate |-> savings_rate, status |-> band[2],
              monthly_savings |-> Frac(total_income - total_expenses, nMonths)]

calculate_savings_rate(txns) ==
    LET nMonths == Cardinality(MonthsOf(txns))
        total_income == TotalIncome(txns)
        total_expenses == TotalExpenses(txns)
        savings_rate == Frac(total_income - total_expenses, total_income)
        band == IF FracLe(Frac(3, 10), savings_rate) THEN <<100, "excellent">>
                ELSE IF FracLe(Frac(2, 10), savings_rate) THEN <<85, "very_good">>
                ELSE IF FracLe(Frac(1, 10), savings_rate) THEN <<70, "good">>
                ELSE IF FracLe(FracInt(0), savings_rate) THEN <<50, "fair">>
                ELSE <<20, "negative">>
    IN  IF nMonths = 0
        THEN [score |-> 0, rate |-> FracInt(0), status |-> "insufficient_data"]
        ELSE IF total_income = 0
        THEN [score |-> 0, rate |-> FracInt(0), status |-> "no_income"]
        ELSE [score |-> band[1], rate |-> savings_rate, status |-> band[2],
              monthly_savings |-> Frac(total_income - total_expenses, nMonths)]

\* cv <= p/q for cv = std/mean of the month totals: q^2 * var <= p^2 * mean^2,
\* i.e. q^2 * PairwiseSq <= p^2 * S^2 with S the sum of the totals (S > 0)
CvLe(amounts, p, q) ==
    LET S == SeqSum(amounts)
    IN  CeilDiv(q * q * PairwiseSq(amounts), S) <= p * p * S

calculate_spending_consistency(txns) ==
    LET amounts == MonthlyDebitTotals(txns)
        S == SeqSum(amounts)
        band == IF CvLe(amounts, 1, 5) THEN <<100, "very_consistent">>
                ELSE IF CvLe(amounts, 2, 5) THEN <<80, "consistent">>
                ELSE IF CvLe(amounts, 3, 5) THEN <<60, "moderate">>
                ELSE IF CvLe(amounts, 4, 5) THEN <<40, "inconsistent">>
                ELSE <<20, "highly_inconsistent">>
    IN  IF Len(amounts) < 3
        THEN [score |-> 50, consistency |-> 0, status |-> "insufficient_data"]
        ELSE IF S = 0
        THEN [score |-> 50, consistency |-> 0, status |-> "no_expenses"]
        \* coefficient_of_variation = sqrt(std2n2) / sum
        ELSE [score |-> band[1], status |-> band[2],
              coefficient_of_variation |-> [std2n2 |-> PairwiseSq(amounts), sum |-> S]]

\* _get_monthly_expenses: the average of the monthly debit totals
get_monthly_expenses(txns) ==
    LET amounts == MonthlyDebitTotals(txns)
    IN  IF amounts = <<>> THEN FracInt(0) ELSE Frac(SeqSum(amounts), Len(amounts))

\* the placeholder of the code: months of expenses the emergency fund covers
emergency_fund_months == 3

calculate_emergency_fund_score(txns) ==
    LET band == IF emergency_fund_months >= 6 THEN <<100, "excellent">>
                ELSE IF emergency_fund_months >= 4 THEN <<80, "good">>
                ELSE IF emergency_fund_months >= 3 THEN <<60, "adequate">>
                ELSE IF emergency_fund_months >= 2 THEN <<40, "inadequate">>
                ELSE <<20, "critical">>
    IN  IF get_monthly_expenses(txns).n = 0
        THEN [score |-> 50, months_covered |-> 0, status |-> "insufficient_data"]
        ELSE [score |-> band[1], months_covered |-> emergency_fund_months,
              status |-> band[2], recommended_months |-> 6]

calculate_debt_management_score(txns) ==
    [score |-> 70, status |-> "good", note |-> "Requires debt account integration"]

\* np.log2(p) * 10^6 for the fraction p
Log2Frac(p) == Log2Micro[p.n] - Log2Micro[p.d]

\* fault injection for C10: calculate_category_diversity that takes the
\* normalized entropy of a single category (max_entropy = 0) to be 1 instead of 0
calculate_category_diversity_degenerate(txns) ==
    LET deb == Debits(txns)
        cats == KeysInOrder([i \in 1..Len(deb) |-> CategoryOf(deb[i])])
        count(c) == Cardinality({i \in 1..Len(deb) : CategoryOf(deb[i]) = c})
        total_transactions == Len(deb)
        entropyN == SeqSum([k \in 1..Len(cats) |->
                        -(count(cats[k]) * Log2Frac(Frac(count(cats[k]), total_transactions)))])
        max_entropy == Log2Micro[Len(cats)]
        ge(a) == IF max_entropy = 0 THEN 5 >= a
                 ELSE 5 * entropyN >= a * total_transactions * max_entropy
        normalized_entropy == IF max_entropy = 0 THEN FracInt(1)
                              ELSE Frac(entropyN, total_transactions * max_entropy)
        band == IF ge(4) THEN <<100, "excellent">>
                ELSE IF ge(3) THEN <<80, "good">>
                ELSE IF ge(2) THEN <<60, "moderate">>
                ELSE IF ge(1) THEN <<40, "low">>
                ELSE <<20, "very_low">>
    IN  IF cats = <<>>
        THEN [score |-> 0, diversity |-> FracInt(0), status |-> "no_expenses"]
        ELSE [score |-> band[1], diversity |-> normalized_entropy, status |-> band[2],
              categories_count |-> Len(cats)]

calculate_category_diversity(txns) ==
    LET deb == Debits(txns)
        cats == KeysInOrder([i \in 1..Len(deb) |-> CategoryOf(deb[i])])
        count(c) == Cardinality({i \in 1..Len(deb) : CategoryOf(deb[i]) = c})
        total_transactions == Len(deb)
        \* total_transactions * entropy * 10^6, for entropy = -sum(p * log2(p))
        entropyN == SeqSum([k \in 1..Len(cats) |->
                        -(count(cats[k]) * Log2Frac(Frac(count(cats[k]), total_transactions)))])
        max_entropy == Log2Micro[Len(cats)]
        \* normalized_entropy >= a/5
        ge(a) == IF max_entropy = 0 THEN 0 >= a
                 ELSE 5 * entropyN >= a * total_transactions * max_entropy
        normalized_entropy == IF max_entropy = 0 THEN FracInt(0)
                              ELSE Frac(entropyN, total_transactions * max_entropy)
        band == IF ge(4) THEN <<100, "excellent">>
                ELSE IF ge(3) THEN <<80, "good">>
                ELSE IF ge(2) THEN <<60, "moderate">>
                ELSE IF ge(1) THEN <<40, "low">>
                ELSE <<20, "very_low">>
    IN  IF cats = <<>>
        THEN [score |-> 0, diversity |-> FracInt(0), status |-> "no_expenses"]
        ELSE [score |-> band[1], diversity |-> normalized_entropy, status |-> band[2],
              categories_count |-> Len(cats)]

MetricNames == <<"income_expense_ratio", "savings_rate", "spending_consistency",
                 "emergency_fund_score", "debt_management", "category_diversity">>

\* the weights of _calculate_overall_score, in hundredths
Weights == [income_expense_ratio |-> 25, savings_rate |-> 25, spending_consistency |-> 15,
            emergency_fund_score |-> 20, debt_management |-> 10, category_diversity |-> 5]

\* the metrics that enter the weighted average: those that carry a score
Scored(metrics) ==
    {name \in DOMAIN Weights : name \in DOMAIN metrics /\ "score" \in DOMAIN metrics[name]}

WeightedSum(metrics) ==
    SeqSum([i \in 1..Len(MetricNames) |->
        IF MetricNames[i] \in Scored(metrics)
        THEN metrics[MetricNames[i]].score * Weights[MetricNames[i]] ELSE 0])

TotalWeight(metrics) ==
    SeqSum([i \in 1..Len(MetricNames) |->
        IF MetricNames[i] \in Scored(metrics) THEN Weights[MetricNames[i]] ELSE 0])

\* fault injection for C5: the overall score as the plain mean of the scores,
\* the weights left out
calculate_overall_score_unweighted(metrics) ==
    LET scores == SeqSum([i \in 1..Len(MetricNames) |->
                    IF MetricNames[i] \in Scored(metrics)
                    THEN metrics[MetricNames[i]].score ELSE 0])
        count == Cardinality(Scored(metrics))
    IN  IF count = 0 THEN FracInt(0)
        ELSE Frac(RoundHalfEven(10 * scores, count), 10)

\* round(total_score / total_weight, 1)
calculate_overall_score(metrics) ==
    IF TotalWeight(metrics) = 0 THEN FracInt(0)
    ELSE Frac(RoundHalfEven(10 * WeightedSum(metrics), TotalWeight(metrics)), 10)

get_health_grade(score) ==
    IF FracLe(FracInt(90), score) THEN "A+"
    ELSE IF FracLe(FracInt(85), score) THEN "A"
    ELSE IF FracLe(FracInt(80), score) THEN "A-"
    ELSE IF FracLe(FracInt(75), score) THEN "B+"
    ELSE IF FracLe(FracInt(70), score) THEN "B"
    ELSE IF FracLe(FracInt(65), score) THEN "B-"
    ELSE IF FracLe(FracInt(60), score) THEN "C+"
    ELSE IF FracLe(FracInt(55), score) THEN "C"
    ELSE IF FracLe(FracInt(50), score) THEN "C-"
    ELSE IF FracLe(FracInt(40), score) THEN "D"
    ELSE "F"

RecReduceExpenses == "Consider reducing monthly expenses or increasing income to improve your financial health."
RecSave == "Aim to save at least 20% of your income. Start with small amounts and gradually increase."
RecBudget == "Create a monthly budget to help maintain consistent spending patterns."
RecEmergency == "Build an emergency fund covering 3-6 months of expenses for financial security."
RecDiversify == "Diversify your spending categories to better track and manage your finances."
RecGreatJob == "Great job! Your financial health is in good shape. Keep maintaining these healthy habits."
RecStart == "Start adding transactions to get personalized financial health insights."

\* fault injection for C27: the positive message added to every list
generate_recommendations_with_praise(metrics) ==
    LET when(name, statuses, msg) ==
            IF metrics[name].status \in statuses THEN <<msg>> ELSE <<>>
    IN  when("income_expense_ratio", {"concerning", "critical"}, RecReduceExpenses)
        \o when("savings_rate", {"fair", "negative"}, RecSave)
        \o when("spending_consistency", {"inconsistent", "highly_inconsistent"}, RecBudget)
        \o when("emergency_fund_score", {"inadequate", "critical"}, RecEmergency)
        \o when("category_diversity", {"low", "very_low"}, RecDiversify)
        \o <<RecGreatJob>>

\* fault injection for C20: the savings message ahead of the income/expense one
generate_recommendations_savings_first(metrics) ==
    LET when(name, statuses, msg) ==
            IF metrics[name].status \in statuses THEN <<msg>> ELSE <<>>
        recs == when("savings_rate", {"fair", "negative"}, RecSave)
             \o when("income_expense_ratio", {"concerning", "critical"}, RecReduceExpenses)
             \o when("spending_consistency", {"inconsistent", "highly_inconsistent"}, RecBudget)
             \o when("emergency_fund_score", {"inadequate", "critical"}, RecEmergency)
             \o when("category_diversity", {"low", "very_low"}, RecDiversify)
    IN  IF recs = <<>> THEN <<RecGreatJob>> ELSE recs

generate_recommendations(metrics) ==
    LET when(name, statuses, msg) ==
            IF metrics[name].status \in statuses THEN <<msg>> ELSE <<>>
        recs == when("income_expense_ratio", {"concerning", "critical"}, RecReduceExpenses)
             \o when("savings_rate", {"fair", "negative"}, RecSave)
             \o when("spending_consistency", {"inconsistent", "highly_inconsistent"}, RecBudget)
             \o when("emergency_fund_score", {"inadequate", "critical"}, RecEmergency)
             \o when("category_diversity", {"low", "very_low"}, RecDiversify)
    IN  IF recs = <<>> THEN <<RecGreatJob>> ELSE recs

get_default_health_score ==
    LET m == [score |-> 50, status |-> "insufficient_data"]
    IN  [overall_score |-> FracInt(50),
         health_grade |-> "C",
         metrics |-> [income_expense_ratio |-> m, savings_rate |-> m,
                      spending_consistency |-> m, emergency_fund_score |-> m,
                      debt_management |-> m, category_diversity |-> m],
         recommendations |-> <<RecStart>>]

\* the six metrics of a non-empty history
HealthMetrics(txns) ==
    [income_expense_ratio |-> calculate_income_expense_ratio(txns),
     savings_rate |-> calculate_savings_rate(txns),
     spending_consistency |-> calculate_spending_consistency(txns),
     emergency_fund_score |-> calculate_emergency_fund_score(txns),
     debt_management |-> calculate_debt_management_score(txns),
     category_diversity |-> calculate_category_diversity(txns)]

\* the try block of calculate_health_score once the transactions are fetched
ComputedHealthScore(txns) ==
    LET metrics == HealthMetrics(txns)
        overall_score == calculate_overall_score(metrics)
    IN  [overall_score |-> overall_score,
         health_grade |-> get_health_grade(overall_score),
         metrics |-> metrics,
         recommendations |-> generate_recommendations(metrics)]

\* _get_user_transactions of the health service: the last 365 days, newest first
Health_get_user_transactions(table) ==
    SortByDate(SelectSeq(table, LAMBDA t : InWindow(t, 365)), FALSE)

\* calculate_health_score; fault is where an exception is raised, if anywhere:
\* in the fetch ("fetch"), in a metric computation ("compute"), or nowhere ("none")
calculate_health_score(txns, fault) ==
    IF fault # "none" THEN get_default_health_score
    ELSE IF txns = <<>> THEN get_default_health_score
    ELSE ComputedHealthScore(txns)

-----------------------------------------------------------------------------
(* SpendingForecastService (backend/app/ml/forecasting.py) *)

\* a call that returned value, and a call that let an exception out
Returned(value) == [outcome |-> "returned", value |-> value]

Raised == [outcome |-> "raised"]

\* date.today() + timedelta(days=days_ahead) raises OverflowError
DateOverflows(days_ahead) ==
    \/ Ordinal(Today) + days_ahead > MaxOrdinal
    \/ Ordinal(Today) + days_ahead < 1

\* the value max(0, base + sgn * sqrt(var)) when clamp, base + sgn * sqrt(var) otherwise
Bound(base, var, sgn, clamp) == [base |-> base, var |-> var, sgn |-> sgn, clamp |-> clamp]

\* the bound that is the number k
ExactBound(k) == Bound(FracInt(k), FracInt(0), 1, FALSE)

\* items sorted by descending total; items of equal total keep their order
\* (sorted(..., key=lambda x: x[1], reverse=True) is stable)
SortByTotalDesc(items) == StableSort(items, [i \in 1..Len(items) |-> -items[i].total])

\* category_totals / category_spending: the debit total of every category, in the
\* order the categories first occur
CategoryTotals(txns) ==
    LET deb == Debits(txns)
        cats == KeysInOrder([i \in 1..Len(deb) |-> CategoryOf(deb[i])])
        total(c) == SeqSum([i \in 1..Len(deb) |->
                        IF CategoryOf(deb[i]) = c THEN Amt(deb[i]) ELSE 0])
    IN  AsSeq([k \in 1..Len(cats) |-> [category |-> cats[k], total |-> total(cats[k])]])

Take(s, n) == SubSeq(s, 1, Min2(n, Len(s)))

\* fault injection for C16: every category, none cut off
get_transaction_categories_all(txns) ==
    LET sorted_categories == SortByTotalDesc(CategoryTotals(txns))
    IN  AsSeq([k \in 1..Len(sorted_categories) |-> sorted_categories[k].category])

\* _get_transaction_categories: the top 5 categories by debit total
get_transaction_categories(txns) ==
    LET sorted_categories == Take(SortByTotalDesc(CategoryTotals(txns)), 5)
    IN  AsSeq([k \in 1..Len(sorted_categories) |-> sorted_categories[k].category])

\* fault injection for C8: the slope taken as last month minus first month
SlopeEndpoints(amounts) == FracInt(amounts[Len(amounts)] - amounts[1])

\* np.polyfit(np.arange(n), amounts, 1)[0]: the least-squares slope
Slope(amounts) ==
    LET n == Len(amounts)
        sx == SeqSum([i \in 1..n |-> i - 1])
        sxx == SeqSum([i \in 1..n |-> (i - 1) * (i - 1)])
        sy == SeqSum(amounts)
        sxy == SeqSum([i \in 1..n |-> (i - 1) * amounts[i]])
    IN  Frac(n * sxy - sx * sy, n * sxx - sx * sx)

\* fault injection for C11: the trend read off the sign of the slope alone
TrendForecastSignOnly(category, amounts, days_ahead) ==
    LET slope == Slope(amounts)
        next_month_amount == FracAdd(FracInt(amounts[Len(amounts)]), slope)
        std2 == Variance(amounts)
        trend == IF FracLe(FracInt(0), slope) THEN "increasing" ELSE "decreasing"
    IN  [category |-> category,
         forecast_amount |-> Frac(next_month_amount.n * days_ahead, next_month_amount.d * 30),
         confidence_interval_lower |-> Bound(next_month_amount, std2, -1, TRUE),
         confidence_interval_upper |-> Bound(next_month_amount, std2, 1, FALSE),
         forecast_date |-> Ordinal(Today) + days_ahead,
         trend |-> trend]

\* fault injection for C24: the daily forecast taken as a seventh of the month
TrendForecastWeekly(category, amounts, days_ahead) ==
    LET slope == Slope(amounts)
        next_month_amount == FracAdd(FracInt(amounts[Len(amounts)]), slope)
        std2 == Variance(amounts)
        trend == IF FracLt(Frac(1, 10), slope) THEN "increasing"
                 ELSE IF FracLt(slope, Frac(-1, 10)) THEN "decreasing"
                 ELSE "stable"
    IN  [category |-> category,
         forecast_amount |-> Frac(next_month_amount.n * days_ahead, next_month_amount.d * 7),
         confidence_interval_lower |-> Bound(next_month_amount, std2, -1, TRUE),
         confidence_interval_upper |-> Bound(next_month_amount, std2, 1, FALSE),
         forecast_date |-> Ordinal(Today) + days_ahead,
         trend |-> trend]

\* the trend and forecast both _forecast_category and _forecast_overall_spending
\* compute from the month totals (at least two of them)
TrendForecast(category, amounts, days_ahead) ==
    LET slope == Slope(amounts)
        next_month_amount == FracAdd(FracInt(amounts[Len(amounts)]), slope)
        std2 == Variance(amounts)
        trend == IF FracLt(Frac(1, 10), slope) THEN "increasing"
                 ELSE IF FracLt(slope, Frac(-1, 10)) THEN "decreasing"
                 ELSE "stable"
    IN  [category |-> category,
         \* daily_forecast * days_ahead, daily_forecast = next_month_amount / 30
         forecast_amount |-> Frac(next_month_amount.n * days_ahead, next_month_amount.d * 30),
         confidence_interval_lower |-> Bound(next_month_amount, std2, -1, TRUE),
         confidence_interval_upper |-> Bound(next_month_amount, std2, 1, FALSE),
         forecast_date |-> Ordinal(Today) + days_ahead,
         trend |-> trend]

\* _forecast_category: <<>> is None; raises tells that the computation of this
\* category raises, which the method catches
forecast_category(txns, category, days_ahead, raises) ==
    LET category_transactions ==
            SelectSeq(txns, LAMBDA t : IsDebit(t) /\ CategoryOf(t) = category)
        amounts == MonthlyDebitTotals(category_transactions)
    IN  IF raises THEN <<>>
        ELSE IF Len(category_transactions) < 5 THEN <<>>
        ELSE IF Len(amounts) < 2 THEN <<>>
        ELSE IF DateOverflows(days_ahead) THEN <<>>
        ELSE <<TrendForecast(category, amounts, days_ahead)>>

\* fault injection for C17: the overall forecast held to the minimum of five
\* transactions of the category forecast
forecast_overall_spending_min5(txns, days_ahead, raises) ==
    LET amounts == MonthlyDebitTotals(txns)
    IN  IF raises THEN <<>>
        ELSE IF Len(SelectSeq(txns, IsDebit)) < 5 THEN <<>>
        ELSE IF Len(amounts) < 2 THEN <<>>
        ELSE IF DateOverflows(days_ahead) THEN <<>>
        ELSE <<TrendForecast("Overall Spending", amounts, days_ahead)>>

\* fault injection for C25: the overall forecast asking for three months
forecast_overall_spending_3months(txns, days_ahead, raises) ==
    LET amounts == MonthlyDebitTotals(txns)
    IN  IF raises THEN <<>>
        ELSE IF Len(amounts) < 3 THEN <<>>
        ELSE IF DateOverflows(days_ahead) THEN <<>>
        ELSE <<TrendForecast("Overall Spending", amounts, days_ahead)>>

\* _forecast_overall_spending
forecast_overall_spending(txns, days_ahead, raises) ==
    LET amounts == MonthlyDebitTotals(txns)
    IN  IF raises THEN <<>>
        ELSE IF Len(amounts) < 2 THEN <<>>
        ELSE IF DateOverflows(days_ahead) THEN <<>>
        ELSE <<TrendForecast("Overall Spending", amounts, days_ahead)>>

\* _get_default_forecast: the date arithmetic may raise
get_default_forecast(days_ahead) ==
    IF DateOverflows(days_ahead) THEN Raised
    ELSE Returned(<<[category |-> "General Expenses",
                     forecast_amount |-> FracInt(500),
                     confidence_interval_lower |-> ExactBound(300),
                     confidence_interval_upper |-> ExactBound(700),
                     forecast_date |-> Ordinal(Today) + days_ahead,
                     trend |-> "stable"]>>)

\* _get_historical_transactions: the last 180 days, oldest first
get_historical_transactions(table) ==
    SortByDate(SelectSeq(table, LAMBDA t : InWindow(t, 180)), TRUE)

\* fault injection for C18: the error of one category ends the loop over the
\* categories
RECURSIVE CategoryForecastsAbort(_, _, _, _, _)
CategoryForecastsAbort(txns, categories, k, days_ahead, fault) ==
    IF k > Len(categories) THEN <<>>
    ELSE IF fault = "category" /\ k = 1 THEN <<>>
    ELSE forecast_category(txns, categories[k], days_ahead, FALSE)
         \o CategoryForecastsAbort(txns, categories, k + 1, days_ahead, fault)

RECURSIVE CategoryForecasts(_, _, _, _, _)
CategoryForecasts(txns, categories, k, days_ahead, fault) ==
    IF k > Len(categories) THEN <<>>
    ELSE forecast_category(txns, categories[k], days_ahead, fault = "category" /\ k = 1)
         \o CategoryForecasts(txns, categories, k + 1, days_ahead, fault)

\* generate_forecast; fault is where an exception is raised, if anywhere: in the
\* fetch, in _get_transaction_categories ("categories"), while the first selected
\* category is forecast ("category"), or in the overall forecast ("overall")
generate_forecast(txns, days_ahead, fault) ==
    IF fault = "fetch" THEN get_default_forecast(days_ahead)
    ELSE IF txns = <<>> THEN get_default_forecast(days_ahead)
    ELSE IF fault = "categories" THEN get_default_forecast(days_ahead)
    ELSE Returned(
            CategoryForecasts(txns, get_transaction_categories(txns), 1, days_ahead, fault)
            \o forecast_overall_spending(txns, days_ahead, fault = "overall"))

-----------------------------------------------------------------------------
(* SpendingInsightsService (backend/app/ml/insights.py) *)

\* the day field of an insight that names no day
NoDay == [m |-> 0, d |-> 0]

\* a SpendingInsight; confidence_score is in hundredths (90 is 0.90); day is the
\* day the description of an anomaly names
Insight(type, title, category, confidence, day) ==
    [insight_type |-> type, title |-> title, category |-> category,
     confidence_score |-> confidence, day |-> day]

\* what a detector did: the insights it returned, or that it raised
Detected(out) == [raised |-> FALSE, out |-> out]

DetectorRaised == [raised |-> TRUE, out |-> <<>>]

\* monthly_data[m]["expenses"]: the else branch, every transaction that is not a credit
MonthExpenses(txns, m) ==
    SeqSum([i \in 1..Len(txns) |->
        IF MonthKey(txns[i].date) = m /\ ~IsCredit(txns[i]) THEN Amt(txns[i]) ELSE 0])

MonthIncome(txns, m) ==
    SeqSum([i \in 1..Len(txns) |->
        IF MonthKey(txns[i].date) = m /\ IsCredit(txns[i]) THEN Amt(txns[i]) ELSE 0])

\* the largest month total, in hundredths, of the month totals that are not
\* whole numbers
MaxCents == 45

\* The month totals are floats. For whole totals ((current - previous) /
\* previous) * 100 is exact at 20 and -20; for totals with hundredths the float
\* result of an exact 20% change can fall beyond 20: these are the previous
\* totals (in hundredths, up to 60, one debit a month) for which
\* ((6p/5 - p) / p) * 100 > 20, resp. ((4p/5 - p) / p) * 100 < -20, as floats
FloatAboveTwenty == {35, 45}

FloatBelowMinusTwenty == {5, 10, 20, 40, 45, 55}

\* change_percentage > 20 and change_percentage < -20, the totals in hundredths
ChangeAboveTwenty(previous, current) ==
    \/ 5 * (current - previous) > previous
    \/ 5 * (current - previous) = previous /\ previous \in FloatAboveTwenty

ChangeBelowMinusTwenty(previous, current) ==
    \/ 5 * (current - previous) < -previous
    \/ 5 * (current - previous) = -previous /\ previous \in FloatBelowMinusTwenty

\* _analyze_spending_trends from the number of transactions, the number of
\* months that have one, and the expenses (in hundredths) of the last two months
spending_trend(n_transactions, n_months, previous_expenses, current_expenses) ==
    IF n_transactions < 10 THEN Detected(<<>>)
    ELSE IF n_months < 2 THEN Detected(<<>>)
    ELSE IF previous_expenses > 0 /\ ChangeAboveTwenty(previous_expenses, current_expenses)
    THEN Detected(<<Insight("trend", "Spending Increase Alert", NoCat, 85, NoDay)>>)
    ELSE IF previous_expenses > 0
            /\ ChangeBelowMinusTwenty(previous_expenses, current_expenses)
    THEN Detected(<<Insight("trend", "Great Spending Control", NoCat, 80, NoDay)>>)
    ELSE Detected(<<>>)

analyze_spending_trends(txns) ==
    LET months == MonthsOf(txns)
        current_month == CHOOSE m \in months : \A x \in months : x <= m
        previous_month == CHOOSE m \in months \ {current_month} :
                              \A x \in months \ {current_month} : x <= m
        current_expenses == MonthExpenses(txns, current_month)
        previous_expenses == MonthExpenses(txns, previous_month)
    IN  IF Len(txns) < 10 THEN Detected(<<>>)
        ELSE IF Cardinality(months) < 2 THEN Detected(<<>>)
        ELSE spending_trend(Len(txns), Cardinality(months),
                            100 * previous_expenses, 100 * current_expenses)

\* daily_spending: the debit total of every day, in the order the days first occur
DailySpending(txns) ==
    LET deb == Debits(txns)
        days == KeysInOrder([i \in 1..Len(deb) |-> deb[i].date])
        total(d) == SeqSum([i \in 1..Len(deb) |-> IF deb[i].date = d THEN Amt(deb[i]) ELSE 0])
    IN  AsSeq([k \in 1..Len(days) |-> [day |-> days[k], total |-> total(days[k])]])

\* fault injection for C9: the anomaly threshold taken as z_score > 3
ZScoreAbove3(amount, amounts) ==
    LET n == Len(amounts)
        d == n * amount - SeqSum(amounts)
    IN  d * d > 9 * PairwiseSq(amounts)

\* z_score > 2 for a day total among amounts: with n days, sum S and
\* P = n^2 * variance, z^2 = (n * amount - S)^2 / P
ZScoreAbove2(amount, amounts) ==
    LET n == Len(amounts)
        d == n * amount - SeqSum(amounts)
    IN  d * d > 4 * PairwiseSq(amounts)

detect_spending_anomalies(txns) ==
    LET daily_spending == DailySpending(txns)
        amounts == AsSeq([k \in 1..Len(daily_spending) |-> daily_spending[k].total])
        flagged == SelectSeq(daily_spending, LAMBDA e : ZScoreAbove2(e.total, amounts))
    IN  IF Len(txns) < 20 THEN Detected(<<>>)
        ELSE IF daily_spending = <<>> THEN Detected(<<>>)
        \* std_amount > 0
        ELSE IF PairwiseSq(amounts) > 0
        THEN Detected(AsSeq([k \in 1..Len(flagged) |->
                Insight("anomaly", "Unusual Spending Day", NoCat, 90, flagged[k].day)]))
        ELSE Detected(<<>>)

generate_savings_recommendations(txns) ==
    LET top == Take(SortByTotalDesc(CategoryTotals(txns)), 3)
        big == SelectSeq(top, LAMBDA e : e.total > 100)
    IN  Detected(AsSeq([k \in 1..Len(big) |->
            Insight("recommendation", "Save on", big[k].category, 75, NoDay)]))

\* day_data of one category: the debit total of every weekday, in the order the
\* weekdays first occur
DayData(txns, category) ==
    LET deb == SelectSeq(txns, LAMBDA t : IsDebit(t) /\ CategoryOf(t) = category)
        wds == KeysInOrder([i \in 1..Len(deb) |-> Weekday(deb[i].date)])
        total(w) == SeqSum([i \in 1..Len(deb) |->
                        IF Weekday(deb[i].date) = w THEN Amt(deb[i]) ELSE 0])
    IN  AsSeq([k \in 1..Len(wds) |-> total(wds[k])])

SeqMax(s) == CHOOSE x \in Range(s) : \A y \in Range(s) : y <= x

SeqMin(s) == CHOOSE x \in Range(s) : \A y \in Range(s) : x <= y

analyze_category_patterns(txns) ==
    LET cats == CategoryTotals(txns)
        hasPattern(e) ==
            LET day_data == DayData(txns, e.category)
            IN  Len(day_data) >= 3 /\ SeqMax(day_data) > SeqMin(day_data) * 2
        found == SelectSeq(cats, hasPattern)
    IN  Detected(AsSeq([k \in 1..Len(found) |->
            Insight("pattern", "Spending Pattern", found[k].category, 70, NoDay)]))

\* txn.date >= current_month compares a datetime.date (the Date column) with a
\* datetime.datetime (utcnow().replace(day=1)): Python raises TypeError
DateVsDatetimeRaises == TRUE

\* what the loop of _detect_budget_issues selects where the comparison is defined:
\* the transactions dated on or after the first day of the current month
InCurrentMonth(t) == Ordinal(t.date) >= Ordinal([m |-> Today.m, d |-> 1])

detect_budget_issues(txns) ==
    LET month == SelectSeq(txns, InCurrentMonth)
        monthly_income == TotalIncome(month)
        monthly_expenses == TotalExpenses(month)
    IN  IF txns # <<>> /\ DateVsDatetimeRaises THEN DetectorRaised
        ELSE IF monthly_income > 0 /\ 10 * monthly_expenses > 9 * monthly_income
        THEN Detected(<<Insight("alert", "High Expense Ratio", NoCat, 85, NoDay)>>)
        ELSE IF monthly_income > 0 /\ 2 * monthly_expenses < monthly_income
        THEN Detected(<<Insight("positive", "Excellent Savings Rate", NoCat, 80, NoDay)>>)
        ELSE Detected(<<>>)

get_default_insights ==
    <<Insight("info", "Welcome to Finance Tracker!", NoCat, 100, NoDay)>>

\* insights.sort(key=lambda x: x.confidence_score, reverse=True): stable
SortByConfidence(insights) ==
    StableSort(insights, [i \in 1..Len(insights) |-> -insights[i].confidence_score])

\* insights[:10]
TopInsights(insights) == Take(insights, 10)

DetectorNames == <<"trend", "anomaly", "savings", "pattern", "budget">>

\* the five detectors in the order generate_insights calls them
RunDetector(name, txns) ==
    CASE name = "trend" -> analyze_spending_trends(txns)
      [] name = "anomaly" -> detect_spending_anomalies(txns)
      [] name = "savings" -> generate_savings_recommendations(txns)
      [] name = "pattern" -> analyze_category_patterns(txns)
      [] name = "budget" -> detect_budget_issues(txns)

\* the detectors generate_insights got to run: all five, or those up to the
\* first that raised
RECURSIVE DetectorSteps(_, _)
DetectorSteps(txns, k) ==
    IF k > Len(DetectorNames) THEN <<>>
    ELSE LET r == RunDetector(DetectorNames[k], txns)
         IN  IF r.raised THEN <<r>> ELSE <<r>> \o DetectorSteps(txns, k + 1)

RECURSIVE Concat(_)
Concat(steps) == IF steps = <<>> THEN <<>> ELSE steps[1].out \o Concat(Tail(steps))

\* fault injection for C2: an except branch that returns what the detectors
\* gathered before the error, as it stands
InsightsOnErrorKeepGathered(gathered) ==
    IF gathered = <<>> THEN get_default_insights ELSE gathered

\* the except branch of generate_insights, given the insights gathered so far
InsightsOnError(gathered) == get_default_insights

\* generate_insights once the detectors have run (steps), on transactions txns
generate_insights(txns, steps, fault) ==
    IF fault = "fetch" THEN InsightsOnError(<<>>)
    ELSE IF txns = <<>> THEN get_default_insights
    ELSE IF steps[Len(steps)].raised THEN InsightsOnError(Concat(steps))
    ELSE TopInsights(SortByConfidence(Concat(steps)))

\* _get_user_transactions of the insights service: every transaction, newest first
Insights_get_user_transactions(table) == SortByDate(table, FALSE)

-----------------------------------------------------------------------------
(* The transactions table and the histories the requests are served on *)

\* what POST /transactions may store: a positive amount, the type the client
\* names, no provider category
TxnDates == {[m |-> 23, d |-> 3], [m |-> 22, d |-> 20], [m |-> 15, d |-> 10]}

TxnAmounts == {40, 100, 300}

NewTransactions ==
    {Txn("debit", a, dt, c, <<>>) : a \in TxnAmounts, dt \in TxnDates, c \in {NoCat, "Food"}}
    \cup {Txn("credit", a, dt, NoCat, <<>>) : a \in TxnAmounts, dt \in TxnDates}
    \* a name that a keyword rule matches, and a type that is neither debit nor credit
    \cup {NamedTxn("debit", 300, [m |-> 23, d |-> 3], NoCat, <<>>, "Starbucks"),
          Txn("transfer", 100, [m |-> 23, d |-> 3], NoCat, <<>>)}

CategoryNames == <<"", "Coffee", "Food", "Rent", "Travel", "Shopping", "Health",
                   "Utilities", "Fun", "Gifts">>

NameIndex(c) == CHOOSE i \in 1..Len(CategoryNames) : CategoryNames[i] = c

\* the order the model keeps the rows in (a table is a multiset: its row order
\* carries no information)
RowKey(t) ==
    ((((t.date.m * 32 + t.date.d) * 3
        + (IF IsDebit(t) THEN 0 ELSE IF IsCredit(t) THEN 1 ELSE 2)) * 16
        + NameIndex(t.custom_category)) * 16
        + (IF t.category = <<>> THEN 0 ELSE NameIndex(t.category[1]))) * 2
        + (IF t.name = "Payment" THEN 0 ELSE 1)

\* rows by RowKey, those of one key by amount
TableOf(rows) ==
    LET byAmount == StableSort(rows, [i \in 1..Len(rows) |-> rows[i].amount])
    IN  StableSort(byAmount, [i \in 1..Len(byAmount) |-> RowKey(byAmount[i])])

InsertRow(table, t) == TableOf(Append(table, t))

\* a total split into `parts` amounts: parts - 1 of `unit` and the rest
Split(total, parts, unit) ==
    AsSeq([j \in 1..parts |-> IF j < parts THEN unit ELSE total - (parts - 1) * unit])

\* the concatenation of the sequences rows[1], rows[2], ..., all of one length
Flatten(rows) ==
    LET parts == IF rows = <<>> THEN 0 ELSE Len(rows[1])
    IN  AsSeq([r \in 1..(Len(rows) * parts) |->
            rows[((r - 1) \div parts) + 1][((r - 1) % parts) + 1]])

\* n months up to the current one, each with one credit of inc and one debit of exp
MonthlyHistory(n, inc, exp) ==
    TableOf(Flatten(AsSeq([i \in 1..n |->
        <<Txn("credit", inc, [m |-> Today.m - (i - 1), d |-> 1], NoCat, <<>>),
          Txn("debit", exp, [m |-> Today.m - (i - 1), d |-> 2], NoCat, <<>>)>>])))

MonthlyExpenses == {2000, 3000, 4000, 4600, 5200, 6000}

\* the debits of provider category "Coffee" in the months up to the current one,
\* month i totalling totals[i] in `parts` transactions, next to `extra` other
\* categories of one larger debit each
CategorySeries(totals, parts, extra) ==
    LET n == Len(totals)
        month(i) == Today.m - (n - i)
        coffee == Flatten(AsSeq([i \in 1..n |->
                    LET amounts == Split(totals[i], parts, 10)
                    IN  AsSeq([j \in 1..parts |->
                            Txn("debit", amounts[j], [m |-> month(i), d |-> 4 + j], NoCat,
                                <<"Coffee">>)])]))
        others == [k \in 1..extra |->
                    Txn("debit", 1000, [m |-> Today.m, d |-> 1], CategoryNames[3 + k], <<>>)]
    IN  TableOf(coffee \o others)

\* two categories of five debits each over the last two months, "Coffee" (from the
\* provider) totalling 300 and "Food" (set by the user) totalling 600, next to
\* `extra` other categories of one larger debit each
CategoryPair(extra) ==
    LET coffee == [j \in 1..5 |->
                    Txn("debit", 60, [m |-> IF j <= 3 THEN Today.m - 1 ELSE Today.m, d |-> 4 + j],
                        NoCat, <<"Coffee">>)]
        food == [j \in 1..5 |->
                    Txn("debit", 120, [m |-> IF j <= 2 THEN Today.m - 1 ELSE Today.m, d |-> 9 + j],
                        "Food", <<>>)]
        others == [k \in 1..extra |->
                    Txn("debit", 1000, [m |-> Today.m, d |-> 1], CategoryNames[3 + k], <<>>)]
    IN  TableOf(coffee \o food \o others)

\* nCats categories, each with debits of 100, 100 and 300 on the first three
\* days of the current month
CategoryDays(nCats) ==
    TableOf(Flatten(AsSeq([k \in 1..nCats |->
        AsSeq([j \in 1..3 |->
            Txn("debit", IF j = 3 THEN 300 ELSE 100, [m |-> Today.m, d |-> j],
                CategoryNames[1 + k], <<>>)])])))

SeriesTotals == {<<100, 110, 120>>, <<120, 110, 100>>, <<100, 100, 100>>, <<100, 120>>,
                 <<100, 120, 100>>}

\* nDays consecutive days from 2026-10-25, each with perDay debits totalling base,
\* but the day at position pos totalling big
DailyHistory(nDays, perDay, base, big, pos) ==
    LET day(k) == IF k <= 7 THEN [m |-> 22, d |-> 24 + k] ELSE [m |-> 23, d |-> k - 7]
    IN  TableOf(Flatten(AsSeq([k \in 1..nDays |->
            LET amounts == Split(IF k = pos THEN big ELSE base, perDay, 5)
            IN  AsSeq([j \in 1..perDay |-> Txn("debit", amounts[j], day(k), NoCat, <<>>)])])))

\* the number of transactions of the largest daily history
MaxDailyTxns == 24

Histories ==
    {MonthlyHistory(n, 5000, exp) : n \in 1..MaxMonths, exp \in MonthlyExpenses}
    \cup {CategorySeries(totals, parts, extra) :
            totals \in SeriesTotals, parts \in 1..2, extra \in {0, MaxExtraCats}}
    \cup {CategoryPair(extra) : extra \in {0, MaxExtraCats - 1}}
    \cup {CategoryDays(MaxExtraCats + 3)}
    \* days of 500 each but the first, of 60
    \cup {DailyHistory(MaxDailyTxns \div 4, 4, 500, 60, 1)}
    \cup {DailyHistory(x[1], x[2], 50, x[3], x[4]) :
            x \in {y \in (2..MaxDays) \X {1, 4, 10} \X {60, 500} \X {1, MaxDays} :
                        y[1] * y[2] <= MaxDailyTxns /\ y[4] \in {1, y[1]}}}

-----------------------------------------------------------------------------
(* The requests *)

NoResponse == [op |-> "none"]

\* days_ahead is any integer of the query string; the last one takes
\* date.today() + timedelta(days=days_ahead) past date.max
DaysAheadValues == {30, 60, 3000000}

ForecastFaults == {"none", "fetch", "categories", "category", "overall"}

HealthFaults == {"none", "fetch", "compute"}

InsightsFaults == {"none", "fetch"}

Init ==
    /\ db \in {<<>>} \cup Histories
    /\ resp = NoResponse

\* POST /transactions
CreateTransaction ==
    \E t \in NewTransactions :
        /\ resp = NoResponse
        /\ Len(db) < MaxTxns
        /\ db' = InsertRow(db, t)
        /\ resp' = [op |-> "create", txn |-> t]

\* GET /ml/forecast: SpendingForecastService.generate_forecast
GenerateForecast ==
    \E days_ahead \in DaysAheadValues, fault \in ForecastFaults :
        /\ resp = NoResponse
        /\ LET snap == IF fault = "fetch" THEN <<>> ELSE get_historical_transactions(db)
           IN  resp' = [op |-> "forecast", days_ahead |-> days_ahead, fault |-> fault,
                        snap |-> snap,
                        result |-> generate_forecast(snap, days_ahead, fault)]
        /\ UNCHANGED db

\* GET /ml/health-score: FinancialHealthService.calculate_health_score
CalculateHealthScore ==
    \E fault \in HealthFaults :
        /\ resp = NoResponse
        /\ LET snap == IF fault = "fetch" THEN <<>> ELSE Health_get_user_transactions(db)
           IN  resp' = [op |-> "health", fault |-> fault, snap |-> snap,
                        result |-> Returned(calculate_health_score(snap, fault))]
        /\ UNCHANGED db

\* GET /ml/insights: SpendingInsightsService.generate_insights
GenerateInsights ==
    \E fault \in InsightsFaults :
        /\ resp = NoResponse
        /\ LET snap == IF fault = "fetch" THEN <<>> ELSE Insights_get_user_transactions(db)
               steps == IF snap = <<>> THEN <<>> ELSE DetectorSteps(snap, 1)
           IN  resp' = [op |-> "insights", fault |-> fault, snap |-> snap, steps |-> steps,
                        result |-> Returned(generate_insights(snap, steps, fault))]
        /\ UNCHANGED db

\* the response is sent and the request ends
Deliver ==
    /\ resp # NoResponse
    /\ resp' = NoResponse
    /\ UNCHANGED db

Next ==
    \/ CreateTransaction
    \/ GenerateForecast
    \/ CalculateHealthScore
    \/ GenerateInsights
    \/ Deliver

Spec == Init /\ [][Next]_vars

-----------------------------------------------------------------------------
(* Properties of the engines' results *)

\* the placeholder of the forecast engine: one "General Expenses" result
IsPlaceholderForecast(result) ==
    /\ result.outcome = "returned"
    /\ Len(result.value) = 1
    /\ result.value[1].category = "General Expenses"
    /\ result.value[1].forecast_amount = FracInt(500)
    /\ result.value[1].confidence_interval_lower = ExactBound(300)
    /\ result.value[1].confidence_interval_upper = ExactBound(700)
    /\ result.value[1].trend = "stable"

\* the default of the health engine: 50, "C", six metrics with insufficient_data
IsDefaultHealthScore(result) ==
    /\ result.outcome = "returned"
    /\ result.value.overall_score = FracInt(50)
    /\ result.value.health_grade = "C"
    /\ DOMAIN result.value.metrics = DOMAIN Weights
    /\ \A name \in DOMAIN Weights :
            result.value.metrics[name].status = "insufficient_data"

\* the default of the insights engine: one insight, of type info
IsWelcomeInsight(result) ==
    /\ result.outcome = "returned"
    /\ Len(result.value) = 1
    /\ result.value[1].insight_type = "info"

\* C1: on an empty transaction history each engine returns its fixed default:
\* the forecast its one "General Expenses" placeholder (500, bounds 300/700,
\* stable) for every days_ahead, the health score 50 with grade "C" and six
\* metrics of status insufficient_data, the insights one insight of type info.
C1_EmptyHistoryDefaults ==
    /\ (resp.op = "forecast" /\ resp.fault = "none" /\ resp.snap = <<>>)
            => IsPlaceholderForecast(resp.result)
    /\ (resp.op = "health" /\ resp.fault = "none" /\ resp.snap = <<>>)
            => IsDefaultHealthScore(resp.result)
    /\ (resp.op = "insights" /\ resp.fault = "none" /\ resp.snap = <<>>)
            => IsWelcomeInsight(resp.result)

\* C1, the state that refutes it: a forecast over an empty history that ended
\* in an exception instead of the placeholder
C1_EmptyHistoryForecastRaised ==
    /\ resp.op = "forecast"
    /\ resp.fault = "none"
    /\ resp.snap = <<>>
    /\ resp.result.outcome = "raised"

sortedByConfidence(out) ==
    \A i \in 1..(Len(out) - 1) : out[i].confidence_score >= out[i + 1].confidence_score

\* C2: for every transaction history, what generate_insights returns has at
\* most 10 insights and is sorted by non-increasing confidence.
C2_InsightsCappedAndSorted ==
    resp.op = "insights" =>
        /\ resp.result.outcome = "returned"
        /\ Len(resp.result.value) <= 10
        /\ sortedByConfidence(resp.result.value)

\* C2, its case: insights were requested on a history for which the detectors
\* gathered insights that are not in confidence order
C2_GatheredOutOfOrder ==
    /\ resp.op = "insights"
    /\ resp.snap # <<>>
    /\ ~sortedByConfidence(Concat(resp.steps))

\* C3: if the fetch or a later computation step of an engine raises, the call
\* still returns normally, with the engine's default result; no exception
\* reaches the caller.  (An error inside one forecast is handled per forecast;
\* the default is asked for the errors that reach the handler of the call.)
C3_NoExceptionEscapes ==
    /\ resp.op \in {"forecast", "health", "insights"}
            => resp.result.outcome = "returned"
    /\ (resp.op = "forecast" /\ resp.fault \in {"fetch", "categories"})
            => IsPlaceholderForecast(resp.result)
    /\ (resp.op = "health" /\ resp.fault # "none")
            => IsDefaultHealthScore(resp.result)
    /\ (resp.op = "insights" /\ resp.fault # "none")
            => IsWelcomeInsight(resp.result)

\* C3, the state that refutes it: the fetch of the forecast engine raised, and
\* so did the handler that builds the placeholder
C3_ForecastHandlerRaised ==
    /\ resp.op = "forecast"
    /\ resp.fault = "fetch"
    /\ resp.result.outcome = "raised"

\* the insights of the detectors that did not raise, every detector run
OtherDetectorsInsights(txns) ==
    LET RECURSIVE from(_)
        from(k) == IF k > Len(DetectorNames) THEN <<>>
                   ELSE RunDetector(DetectorNames[k], txns).out \o from(k + 1)
    IN  from(1)

\* C4: an error inside one detector skips only that detector: the insights of
\* the other four are still returned, sorted and capped at 10, and the
\* response is not replaced by the welcome placeholder.
C4_DetectorErrorSkipsOnlyThatDetector ==
    (resp.op = "insights" /\ resp.fault = "none" /\ resp.snap # <<>>) =>
        /\ resp.result.outcome = "returned"
        /\ resp.result.value = TopInsights(SortByConfidence(OtherDetectorsInsights(resp.snap)))

\* C4, the state that refutes it: a detector raised after others had produced
\* insights, and the response is the welcome placeholder
C4_InsightsLostToPlaceholder ==
    /\ resp.op = "insights"
    /\ resp.fault = "none"
    /\ resp.snap # <<>>
    /\ resp.steps[Len(resp.steps)].raised
    /\ Concat(resp.steps) # <<>>
    /\ resp.result.value = get_default_insights

\* C5 as stated: for every history the overall_score lies in [0, 100] and
\* equals sum(score * weight) / sum(weight) over the metrics that carry a score.
C5_OverallScoreExactWeightedMean ==
    resp.op = "health" =>
        LET r == resp.result.value
        IN  /\ FracLe(FracInt(0), r.overall_score)
            /\ FracLe(r.overall_score, FracInt(100))
            /\ TotalWeight(r.metrics) > 0
            /\ r.overall_score = Frac(WeightedSum(r.metrics), TotalWeight(r.metrics))

\* C5, amended: for every history the overall_score lies in [0, 100] and
\* equals sum(score * weight) / sum(weight) over the metrics that carry a
\* score, rounded to one decimal place.
C5_OverallScoreRoundedWeightedMean ==
    resp.op = "health" =>
        LET r == resp.result.value
        IN  /\ FracLe(FracInt(0), r.overall_score)
            /\ FracLe(r.overall_score, FracInt(100))
            /\ TotalWeight(r.metrics) > 0
            /\ r.overall_score =
                    Frac(RoundHalfEven(10 * WeightedSum(r.metrics), TotalWeight(r.metrics)), 10)

\* C5, its case: a computed health score whose weighted mean has more than
\* one decimal
C5_RoundingMatters ==
    /\ resp.op = "health"
    /\ resp.fault = "none"
    /\ resp.snap # <<>>
    /\ (10 * WeightedSum(resp.result.value.metrics))
            % TotalWeight(resp.result.value.metrics) # 0

\* C6: in every result of calculate_health_score (computed or default) the
\* grade is the band of the returned overall_score under the table A+ (>= 90),
\* A (>= 85), A- (>= 80), B+ (>= 75), B (>= 70), B- (>= 65), C+ (>= 60),
\* C (>= 55), C- (>= 50), D (>= 40), F (< 40).
C6_GradeIsBandOfScore ==
    resp.op = "health" =>
        resp.result.value.health_grade = get_health_grade(resp.result.value.overall_score)

\* C6, the state that refutes it: the default result, 50 with grade "C"
C6_DefaultGradeOffBand ==
    /\ resp.op = "health"
    /\ resp.snap = <<>>
    /\ resp.result.value.overall_score = FracInt(50)
    /\ resp.result.value.health_grade = "C"

\* txns has income inc and expenses exp in each of n months, and no other month
MonthlyIncomeExpenses(txns, n, inc, exp) ==
    /\ Cardinality(MonthsOf(txns)) = n
    /\ \A m \in MonthsOf(txns) :
            MonthIncome(txns, m) = inc /\ MonthExpenses(txns, m) = exp

\* C7 as stated: with income 5000 and expenses 4000 in each of 12 months,
\* income_expense_ratio has score 80 and status "good", and savings_rate has
\* score 85 and status "very_good".
C7_ScenarioGoodRatio ==
    (resp.op = "health" /\ resp.fault = "none"
        /\ MonthlyIncomeExpenses(resp.snap, 12, 5000, 4000)) =>
        LET m == resp.result.value.metrics
        IN  /\ m.income_expense_ratio.score = 80
            /\ m.income_expense_ratio.status = "good"
            /\ m.savings_rate.score = 85
            /\ m.savings_rate.status = "very_good"

\* C7, amended: with income 5000 and expenses 4000 in each of 12 months (ratio
\* 0.8, savings rate 0.2), income_expense_ratio has score 60 and status
\* "fair", and savings_rate has score 85 and status "very_good".
C7_ScenarioFairRatio ==
    (resp.op = "health" /\ resp.fault = "none"
        /\ MonthlyIncomeExpenses(resp.snap, 12, 5000, 4000)) =>
        LET m == resp.result.value.metrics
        IN  /\ m.income_expense_ratio.ratio = Frac(8, 10)
            /\ m.income_expense_ratio.score = 60
            /\ m.income_expense_ratio.status = "fair"
            /\ m.savings_rate.rate = Frac(2, 10)
            /\ m.savings_rate.score = 85
            /\ m.savings_rate.status = "very_good"

\* C7, its case: the health score of the 12 months of 5000 / 4000 was computed
C7_ScenarioScored ==
    /\ resp.op = "health"
    /\ resp.fault = "none"
    /\ MonthlyIncomeExpenses(resp.snap, 12, 5000, 4000)
    /\ "ratio" \in DOMAIN resp.result.value.metrics.income_expense_ratio

\* the debit transactions of txns that resolve to category
CategoryDebits(txns, category) ==
    SelectSeq(txns, LAMBDA t : IsDebit(t) /\ CategoryOf(t) = category)

\* the debit transactions of category fall in consecutive months, with these
\* monthly totals
HasMonthlySeries(txns, category, totals) ==
    LET ct == CategoryDebits(txns, category)
        months == MonthsOf(ct)
    IN  /\ ct # <<>>
        /\ \E m \in months : months = m..(m + Len(totals) - 1)
        /\ MonthlyDebitTotals(ct) = totals

SeriesCategories(txns, totals) ==
    {c \in {CategoryOf(txns[i]) : i \in 1..Len(txns)} : HasMonthlySeries(txns, c, totals)}

\* the forecast names category once, increasing, with this amount
ForecastsIncrease(result, category, amount) ==
    /\ result.outcome = "returned"
    /\ Cardinality({i \in 1..Len(result.value) : result.value[i].category = category}) = 1
    /\ \A i \in 1..Len(result.value) :
            result.value[i].category = category =>
                /\ result.value[i].trend = "increasing"
                /\ result.value[i].forecast_amount = amount

\* C8 as stated: for a debit category whose transactions fall in three
\* consecutive months with monthly totals [100, 110, 120],
\* generate_forecast(days_ahead = 30) emits a result for that category with
\* trend "increasing" and forecast_amount 130.
C8_SeriesForecast ==
    (resp.op = "forecast" /\ resp.fault = "none" /\ resp.days_ahead = 30) =>
        \A c \in SeriesCategories(resp.snap, <<100, 110, 120>>) :
            ForecastsIncrease(resp.result, c, FracInt(130))

\* C8, amended: the same for a category that has at least 5 debit
\* transactions in the 180-day window and is one of the five categories of
\* largest debit total that generate_forecast selects.
C8_SeriesForecastOfSelectedCategory ==
    (resp.op = "forecast" /\ resp.fault = "none" /\ resp.days_ahead = 30) =>
        \A c \in SeriesCategories(resp.snap, <<100, 110, 120>>) :
            (/\ Len(CategoryDebits(resp.snap, c)) >= 5
             /\ c \in Range(get_transaction_categories(resp.snap)))
                => ForecastsIncrease(resp.result, c, FracInt(130))

\* C8, its case: a 30-day forecast was made for a selected category of at
\* least 5 transactions with the monthly totals [100, 110, 120]
C8_SeriesForecastMade ==
    /\ resp.op = "forecast"
    /\ resp.fault = "none"
    /\ resp.days_ahead = 30
    /\ \E c \in SeriesCategories(resp.snap, <<100, 110, 120>>) :
            /\ Len(CategoryDebits(resp.snap, c)) >= 5
            /\ c \in Range(get_transaction_categories(resp.snap))
            /\ \E i \in 1..Len(resp.result.value) : resp.result.value[i].category = c

\* the days on which txns has debit spending whose total is larger than the
\* total of every other such day, those others all having the same total
OutlierDays(txns) ==
    LET ds == DailySpending(txns)
    IN  {ds[k].day : k \in {x \in 1..Len(ds) :
            /\ Len(ds) >= 2
            /\ \A i, j \in 1..Len(ds) \ {x} : ds[i].total = ds[j].total
            /\ \A i \in 1..Len(ds) \ {x} : ds[x].total > ds[i].total}}

\* the insights the anomaly detector produced in this request
AnomalyInsights == resp.steps[2].out

\* C9 as stated: for a history of at least 20 transactions in which every
\* day's debit total is the same except a single day with a larger total, the
\* anomaly detector emits exactly one insight, for that day.
C9_OneOutlierOneAnomaly ==
    (resp.op = "insights" /\ resp.fault = "none" /\ Len(resp.snap) >= 20) =>
        \A day \in OutlierDays(resp.snap) :
            /\ Len(AnomalyInsights) = 1
            /\ AnomalyInsights[1].insight_type = "anomaly"
            /\ AnomalyInsights[1].day = day

\* C9, amended: the same for a history whose debit spending falls on at least
\* 6 distinct days.
C9_OneOutlierAmongSixDays ==
    (resp.op = "insights" /\ resp.fault = "none" /\ Len(resp.snap) >= 20
        /\ Len(DailySpending(resp.snap)) >= 6) =>
        \A day \in OutlierDays(resp.snap) :
            /\ Len(AnomalyInsights) = 1
            /\ AnomalyInsights[1].insight_type = "anomaly"
            /\ AnomalyInsights[1].day = day

\* C9, its case: the anomaly detector ran on at least 20 transactions over at
\* least 6 days with one outlier day, and flagged it
C9_OutlierFlagged ==
    /\ resp.op = "insights"
    /\ resp.fault = "none"
    /\ Len(resp.snap) >= 20
    /\ Len(DailySpending(resp.snap)) >= 6
    /\ OutlierDays(resp.snap) # {}
    /\ Len(AnomalyInsights) = 1

\* every debit transaction of txns resolves to one single category
SingleCategory(txns) ==
    /\ Debits(txns) # <<>>
    /\ Cardinality({CategoryOf(Debits(txns)[i]) : i \in 1..Len(Debits(txns))}) = 1

\* C10: for every history whose debit transactions all resolve to one single
\* category, category_diversity has normalized entropy 0, score 20 and status
\* "very_low", and the normalization by log2(1) = 0 causes no error (the
\* result is the computed one, not the default of the error handler).
C10_SingleCategoryVeryLow ==
    (resp.op = "health" /\ resp.fault = "none" /\ SingleCategory(resp.snap)) =>
        /\ resp.result.outcome = "returned"
        /\ resp.result.value.metrics.category_diversity.diversity = FracInt(0)
        /\ resp.result.value.metrics.category_diversity.score = 20
        /\ resp.result.value.metrics.category_diversity.status = "very_low"
        /\ resp.result.value.metrics.debt_management.status = "good"

\* C10, its case: the health score of 20 or more debits of one category
C10_TwentyDebitsOneCategory ==
    /\ resp.op = "health"
    /\ resp.fault = "none"
    /\ SingleCategory(resp.snap)
    /\ Len(Debits(resp.snap)) >= 20
    /\ resp.result.value.metrics.category_diversity.categories_count = 1

\* the monthly totals a forecast named category is computed from
SeriesOf(txns, category) ==
    IF category = "Overall Spending" THEN MonthlyDebitTotals(txns)
    ELSE MonthlyDebitTotals(CategoryDebits(txns, category))

\* max(0, base - std) = base + std for the bounds of one forecast (std >= 0):
\* either std = 0 and base >= 0, or the lower bound is clamped and base = -std
BoundsCoincide(lower, upper) ==
    \/ lower.var.n = 0 /\ lower.base.n >= 0
    \/ lower.base.n < 0
        /\ lower.base.n * lower.base.n * lower.var.d = lower.var.n * lower.base.d * lower.base.d

\* the forecasts of a response that were computed from the history
ComputedForecasts ==
    IF resp.op = "forecast" /\ resp.fault \notin {"fetch", "categories"}
        /\ resp.snap # <<>> /\ resp.result.outcome = "returned"
    THEN Range(resp.result.value) ELSE {}

\* C11: every forecast computed from a monthly series whose fitted slope is
\* zero has trend "stable", and its lower and upper confidence bounds are
\* equal only if the standard deviation of the monthly totals is 0.
C11_ZeroSlopeStable ==
    \A r \in ComputedForecasts :
        LET amounts == SeriesOf(resp.snap, r.category)
        IN  Slope(amounts).n = 0 =>
                /\ r.trend = "stable"
                /\ BoundsCoincide(r.confidence_interval_lower, r.confidence_interval_upper)
                        => PairwiseSq(amounts) = 0

\* C11, its case: a category forecast from a series of zero slope whose
\* months differ (100, 120, 100)
C11_ZeroSlopeForecastMade ==
    \E r \in ComputedForecasts :
        LET amounts == SeriesOf(resp.snap, r.category)
        IN  /\ r.category # "Overall Spending"
            /\ Slope(amounts).n = 0
            /\ PairwiseSq(amounts) > 0

\* the category of a transaction under the precedence custom category,
\* provider category, keyword rule on the name, fallback label
KeywordResolvedCategory(t) ==
    IF t.custom_category # NoCat THEN t.custom_category
    ELSE IF t.category # <<>> THEN t.category[1]
    ELSE detect_category_from_name(Spell[t.name])

KeywordResolvedLabels(txns) ==
    {KeywordResolvedCategory(Debits(txns)[i]) : i \in 1..Len(Debits(txns))}

\* the insights of the savings and the pattern detector of this request, which
\* name a category
CategoryInsights == resp.steps[3].out \o resp.steps[4].out

\* C12: all three engines resolve the category of a transaction with the
\* precedence custom category, first provider category, label of the first
\* keyword rule matching the name, fallback label; so every category an
\* engine reports is the so-resolved category of a debit of the history, and
\* the health score counts the so-resolved categories.
C12_EnginesResolveByKeyword ==
    /\ \A r \in ComputedForecasts :
            r.category # "Overall Spending" => r.category \in KeywordResolvedLabels(resp.snap)
    /\ (resp.op = "insights" /\ resp.fault = "none" /\ resp.snap # <<>>) =>
            \A i \in 1..Len(CategoryInsights) :
                CategoryInsights[i].category \in KeywordResolvedLabels(resp.snap)
    /\ (resp.op = "health" /\ resp.fault = "none" /\ Debits(resp.snap) # <<>>) =>
            resp.result.value.metrics.category_diversity.categories_count
                = Cardinality(KeywordResolvedLabels(resp.snap))

\* C12, the state that refutes it: the savings detector reports "Other" for a
\* history whose only debit is named after a keyword of "Food & Dining"
C12_KeywordDebitUnderOther ==
    /\ resp.op = "insights"
    /\ resp.fault = "none"
    /\ resp.snap # <<>>
    /\ KeywordResolvedLabels(resp.snap) = {"Food & Dining"}
    /\ \E i \in 1..Len(CategoryInsights) : CategoryInsights[i].category = "Other"

-----------------------------------------------------------------------------
(* The keyword lookups on their own: the dashboard summary applies           *)
(* detect_category_from_name to the name of an uncategorised expense, the    *)
(* statement upload applies categorize to the description of a row.          *)

\* the texts looked up: every keyword, and every label and name of Spell
LookupTexts ==
    UNION {Range(NameRules[k].words) : k \in 1..Len(NameRules)}
    \cup UNION {Range(DescriptionRules[k].words) : k \in 1..Len(DescriptionRules)}
    \cup {Spell[x] : x \in DOMAIN Spell}

DetectCategory ==
    \E name \in LookupTexts :
        /\ resp = NoResponse
        /\ resp' = [op |-> "detect", text |-> name,
                    label |-> detect_category_from_name(name)]
        /\ UNCHANGED db

Categorize ==
    \E description \in LookupTexts :
        /\ resp = NoResponse
        /\ resp' = [op |-> "categorize", text |-> description,
                    label |-> categorize(description)]
        /\ UNCHANGED db

LookupInit ==
    /\ db = <<>>
    /\ resp = NoResponse

LookupNext ==
    \/ DetectCategory
    \/ Categorize
    \/ Deliver

LookupSpec == LookupInit /\ [][LookupNext]_vars

\* C13: the keyword lookup is idempotent: looking up a label the lookup
\* returned gives that label again.
C13_LookupIdempotent ==
    /\ resp.op = "detect" => detect_category_from_name(Spell[resp.label]) = resp.label
    /\ resp.op = "categorize" => categorize(Spell[resp.label]) = resp.label

\* C13, the state that refutes it: a name resolved to "Transportation", which
\* the lookup itself resolves to "Other"
C13_TransportationReclassified ==
    /\ resp.op = "detect"
    /\ resp.label = "Transportation"
    /\ detect_category_from_name(Spell["Transportation"]) = "Other"

-----------------------------------------------------------------------------
(* Engine calls interleaved with each other and with writes. Here resp holds *)
(* one record per request in progress: a call fetches its transactions, and  *)
(* computes and returns later, while other requests fetch and write.         *)

CallIds == {"a", "b"}

EngineOps == {"forecast", "health", "insights"}

Idle == [phase |-> "idle"]

\* the one query of a call: forecasting.py:30, health_score.py:29, insights.py:32
FetchFor(op, table) ==
    CASE op = "forecast" -> get_historical_transactions(table)
      [] op = "health" -> Health_get_user_transactions(table)
      [] op = "insights" -> Insights_get_user_transactions(table)

\* what the engine returns for the transactions it works on
EngineRun(op, txns) ==
    CASE op = "forecast" -> generate_forecast(txns, 30, "none")
      [] op = "health" -> Returned(calculate_health_score(txns, "none"))
      [] op = "insights" ->
            Returned(generate_insights(txns, IF txns = <<>> THEN <<>>
                                             ELSE DetectorSteps(txns, 1), "none"))

\* fault injection: the computation reads the table again
EngineInputRefetch(call, table) == FetchFor(call.op, table)

\* the transactions the computation works on: the local list `transactions`
\* that the query at the start of the call filled
EngineInput(call, table) == call.snap

\* the call starts: its query runs
BeginCall ==
    \E c \in CallIds, op \in EngineOps :
        /\ resp[c] = Idle
        /\ resp' = [resp EXCEPT ![c] = [phase |-> "fetched", op |-> op,
                                        snap |-> FetchFor(op, db)]]
        /\ UNCHANGED db

\* the call computes and returns
FinishCall ==
    \E c \in CallIds :
        /\ resp[c].phase = "fetched"
        /\ resp' = [resp EXCEPT ![c] =
                        [phase |-> "done", op |-> resp[c].op, snap |-> resp[c].snap,
                         result |-> EngineRun(resp[c].op, EngineInput(resp[c], db))]]
        /\ UNCHANGED db

DeliverCall ==
    \E c \in CallIds :
        /\ resp[c].phase = "done"
        /\ resp' = [resp EXCEPT ![c] = Idle]
        /\ UNCHANGED db

\* POST /transactions while calls are in progress
ConcurrentCreate ==
    /\ Len(db) < MaxTxns
    /\ db' = InsertRow(db, NamedTxn("debit", 300, [m |-> 23, d |-> 3], NoCat, <<>>,
                                    "Starbucks"))
    /\ UNCHANGED resp

\* PlaidService.sync_user_transactions: a row with the provider's category
SyncTransactions ==
    /\ Len(db) < MaxTxns
    /\ db' = InsertRow(db, Txn("debit", 40, [m |-> 22, d |-> 20], NoCat, <<"Coffee">>))
    /\ UNCHANGED resp

\* PUT /transactions/{id}: the user sets the custom category of a row
UpdateTransaction ==
    \E i \in 1..Len(db) :
        /\ db[i].custom_category = NoCat
        /\ db' = TableOf([db EXCEPT ![i].custom_category = "Food"])
        /\ UNCHANGED resp

ConcurrentInit ==
    /\ db = <<>>
    /\ resp = [c \in CallIds |-> Idle]

ConcurrentNext ==
    \/ BeginCall
    \/ FinishCall
    \/ DeliverCall
    \/ ConcurrentCreate
    \/ SyncTransactions
    \/ UpdateTransaction

ConcurrentSpec == ConcurrentInit /\ [][ConcurrentNext]_vars

\* C14: every returned result is the engine's result on the transactions the
\* call fetched at its start, whatever was written in between, and a step of
\* an engine call changes no stored transaction.
C14_ResultOfFetchedSnapshot ==
    /\ [](\A c \in CallIds :
            resp[c].phase = "done" => resp[c].result = EngineRun(resp[c].op, resp[c].snap))
    /\ [][resp' # resp => db' = db]_vars

\* C14, its case: a call returns while the table no longer holds what the call
\* fetched, and the other call is in progress on a different fetch
C14_ReturnedAfterWrite ==
    \E c \in CallIds, o \in CallIds :
        /\ c # o
        /\ resp[c].phase = "done"
        /\ resp[c].snap # FetchFor(resp[c].op, db)
        /\ resp[c].result # EngineRun(resp[c].op, FetchFor(resp[c].op, db))
        /\ resp[o].phase = "fetched"
        /\ resp[o].snap # resp[c].snap
        /\ resp[o].op # resp[c].op

-----------------------------------------------------------------------------
\* C15: generate_forecast never returns an empty sequence: when the debits of
\* the history cover fewer than two calendar months (or there are none), the
\* result is the cold-start placeholder.
C15_InsufficientHistoryPlaceholder ==
    (resp.op = "forecast" /\ resp.result.outcome = "returned") =>
        /\ resp.result.value # <<>>
        /\ Len(MonthlyDebitTotals(resp.snap)) < 2 => IsPlaceholderForecast(resp.result)

\* C15, the state that refutes it: no error anywhere, a history that is not
\* empty with all its debits in one month, and the empty list returned
C15_EmptyListReturned ==
    /\ resp.op = "forecast"
    /\ resp.fault = "none"
    /\ resp.days_ahead = 30
    /\ resp.snap # <<>>
    /\ Len(MonthlyDebitTotals(resp.snap)) = 1
    /\ resp.result = Returned(<<>>)

-----------------------------------------------------------------------------
\* the total of the debits of a category
DebitTotalOf(txns, category) ==
    LET ct == CategoryDebits(txns, category)
    IN  SeqSum([i \in 1..Len(ct) |-> Amt(ct[i])])

DebitCategories(txns) == {CategoryOf(txns[i]) : i \in {j \in 1..Len(txns) : IsDebit(txns[j])}}

\* C16: for a history that is not empty generate_forecast returns at most 6
\* results, no two of one category; each category reported has fewer than 5
\* debit categories of a larger total; the categories come in descending
\* order of their totals; "Overall Spending", if present, is the last one.
C16_TopFiveThenOverall ==
    (resp.op = "forecast" /\ resp.fault \notin {"fetch", "categories"}
        /\ resp.snap # <<>> /\ resp.result.outcome = "returned") =>
        LET v == resp.result.value
            total(i) == DebitTotalOf(resp.snap, v[i].category)
            isCategory(i) == v[i].category # "Overall Spending"
        IN  /\ Len(v) <= 6
            /\ \A i, j \in 1..Len(v) : i < j => v[i].category # v[j].category
            /\ \A i \in 1..Len(v) : ~isCategory(i) => i = Len(v)
            /\ \A i \in 1..Len(v) : isCategory(i) =>
                    /\ v[i].category \in DebitCategories(resp.snap)
                    /\ Cardinality({c \in DebitCategories(resp.snap) :
                            DebitTotalOf(resp.snap, c) > total(i)}) < 5
            /\ \A i, j \in 1..Len(v) :
                    (i < j /\ isCategory(i) /\ isCategory(j)) => total(i) >= total(j)

\* C16, its case: of two categories with enough debits one is forecast, then
\* "Overall Spending"; the other is not among the five largest and is left out
C16_SixthCategoryLeftOut ==
    /\ resp.op = "forecast"
    /\ resp.fault = "none"
    /\ resp.result.outcome = "returned"
    /\ Len(resp.result.value) = 2
    /\ resp.result.value[1].category = "Food"
    /\ resp.result.value[2].category = "Overall Spending"
    /\ Cardinality(DebitCategories(resp.snap)) > 5
    /\ Len(CategoryDebits(resp.snap, "Coffee")) >= 5
    /\ Len(SeriesOf(resp.snap, "Coffee")) >= 2

-----------------------------------------------------------------------------
\* a forecast request answered from a history that is not empty
ForecastComputed ==
    /\ resp.op = "forecast"
    /\ resp.fault \notin {"fetch", "categories"}
    /\ resp.snap # <<>>
    /\ resp.result.outcome = "returned"

HasOverallForecast ==
    \E i \in 1..Len(resp.result.value) : resp.result.value[i].category = "Overall Spending"

CategoryForecastsHaveFiveDebitsTwoMonths ==
    \A r \in ComputedForecasts :
        r.category # "Overall Spending" =>
            /\ Len(CategoryDebits(resp.snap, r.category)) >= 5
            /\ Len(SeriesOf(resp.snap, r.category)) >= 2

-----------------------------------------------------------------------------
\* the category whose forecast raises: the first one selected, if any is
FailingCategory ==
    LET categories == get_transaction_categories(resp.snap)
    IN  IF categories = <<>> THEN NoCat ELSE categories[1]

\* what the request returns when nothing raises
UndisturbedForecasts == generate_forecast(resp.snap, resp.days_ahead, "none").value

\* C18: when the forecast of one category raises, generate_forecast returns
\* what it returns otherwise, in the same order, without the forecast of that
\* category; the result is not replaced by the placeholder.
C18_CategoryErrorOmitsThatCategory ==
    (ForecastComputed /\ resp.fault = "category") =>
        /\ resp.result.value =
                SelectSeq(UndisturbedForecasts, LAMBDA r : r.category # FailingCategory)
        /\ ~IsPlaceholderForecast(resp.result)

\* C18, its case: the forecast of "Food" raises; the forecasts of "Coffee" and
\* of the overall spending are returned
C18_OtherCategoryAndOverallKept ==
    /\ ForecastComputed
    /\ resp.fault = "category"
    /\ FailingCategory = "Food"
    /\ \E i \in 1..Len(UndisturbedForecasts) : UndisturbedForecasts[i].category = "Food"
    /\ Len(resp.result.value) = 2
    /\ resp.result.value[1].category = "Coffee"
    /\ resp.result.value[2].category = "Overall Spending"

-----------------------------------------------------------------------------
\* C19: every health sub-metric takes the credits as income and the debits as
\* expenses: the income/expense ratio is debits over credits and the savings
\* rate is credits less debits over credits, the debits being those that
\* spending_consistency and the emergency fund estimate total by month; a
\* transaction of another type counts in neither.
C19_ExpensesAreDebits ==
    (resp.op = "health" /\ resp.fault = "none" /\ TotalIncome(resp.snap) > 0) =>
        LET income == TotalIncome(resp.snap)
            debits == SeqSum(MonthlyDebitTotals(resp.snap))
            metrics == resp.result.value.metrics
        IN  /\ metrics.income_expense_ratio.ratio = Frac(debits, income)
            /\ metrics.savings_rate.rate = Frac(income - debits, income)

\* C19, the state that refutes it: a credit of 300 and a transfer of 100, no
\* debit; the ratio is 1/3 and the savings rate 2/3
C19_TransferCountedAsExpense ==
    /\ resp.op = "health"
    /\ resp.fault = "none"
    /\ TotalIncome(resp.snap) = 300
    /\ MonthlyDebitTotals(resp.snap) = <<>>
    /\ \E i \in 1..Len(resp.snap) : resp.snap[i].transaction_type = "transfer"
    /\ resp.result.value.metrics.income_expense_ratio.ratio = Frac(1, 3)
    /\ resp.result.value.metrics.savings_rate.rate = Frac(2, 3)
    /\ resp.result.value.metrics.emergency_fund_score.status = "insufficient_data"

-----------------------------------------------------------------------------
\* the messages of _generate_recommendations in its order, and for each whether
\* the status of its sub-metric asks for it
RecommendationMessages ==
    <<RecReduceExpenses, RecSave, RecBudget, RecEmergency, RecDiversify>>

RecommendationNeeded(metrics) ==
    <<metrics.income_expense_ratio.status \in {"concerning", "critical"},
      metrics.savings_rate.status \in {"fair", "negative"},
      metrics.spending_consistency.status \in {"inconsistent", "highly_inconsistent"},
      metrics.emergency_fund_score.status \in {"inadequate", "critical"},
      metrics.category_diversity.status \in {"low", "very_low"}>>

HealthComputed == resp.op = "health" /\ resp.fault = "none" /\ resp.snap # <<>>

\* C20: the recommendations of a computed health score are never empty; they
\* are, in the order income_expense_ratio, savings_rate, spending_consistency,
\* emergency_fund_score, category_diversity, one message for each sub-metric
\* whose status asks for it, and the positive default message alone if and
\* only if no status asks for one.
C20_RecommendationsFollowStatuses ==
    HealthComputed =>
        LET recs == resp.result.value.recommendations
            needed == RecommendationNeeded(resp.result.value.metrics)
            asked == SelectSeq(<<1, 2, 3, 4, 5>>, LAMBDA i : needed[i])
        IN  /\ recs # <<>>
            /\ asked # <<>> =>
                    /\ recs = [k \in 1..Len(asked) |-> RecommendationMessages[asked[k]]]
                    /\ RecGreatJob \notin Range(recs)
            /\ asked = <<>> => recs = <<RecGreatJob>>

\* C20, its cases: three sub-metrics ask for their message
C20_ThreeRecommendations ==
    /\ HealthComputed
    /\ resp.result.value.recommendations = <<RecReduceExpenses, RecSave, RecDiversify>>

-----------------------------------------------------------------------------
(* The trend detector on its own, on histories whose last two months have    *)
(* one debit each, of an amount with hundredths, next to credits.            *)

\* _analyze_spending_trends for such a history
AnalyzeSpendingTrends ==
    \E n_transactions \in 9..10, n_months \in 1..2,
       previous \in 0..MaxCents, current \in 0..MaxCents :
        /\ resp = NoResponse
        /\ resp' = [op |-> "trend", n_transactions |-> n_transactions,
                    n_months |-> n_months, previous |-> previous, current |-> current,
                    out |-> spending_trend(n_transactions, n_months, previous, current).out]
        /\ UNCHANGED db

TrendNext == AnalyzeSpendingTrends \/ Deliver

TrendSpec == LookupInit /\ [][TrendNext]_vars

\* C21: the trend detector emits at most one insight; with at least 10
\* transactions over at least 2 months and an earlier total above 0 it emits
\* the increase alert (0.85) exactly when the change is above +20% and the
\* spending-control insight (0.80) exactly when it is below -20%; otherwise
\* (fewer transactions or months, earlier total 0, change within +/-20%
\* inclusive) it emits nothing.
C21_TrendThresholds ==
    resp.op = "trend" =>
        LET eligible == resp.n_transactions >= 10 /\ resp.n_months >= 2 /\ resp.previous > 0
            change5 == 5 * (resp.current - resp.previous)
            alert == Insight("trend", "Spending Increase Alert", NoCat, 85, NoDay)
            control == Insight("trend", "Great Spending Control", NoCat, 80, NoDay)
        IN  resp.out = IF eligible /\ change5 > resp.previous THEN <<alert>>
                       ELSE IF eligible /\ change5 < -resp.previous THEN <<control>>
                       ELSE <<>>

\* C21, the state that refutes it: expenses of 0.35 and then 0.42, a change of
\* exactly +20%, and the increase alert emitted
C21_AlertAtExactlyTwenty ==
    /\ resp.op = "trend"
    /\ resp.n_transactions = 10
    /\ resp.n_months = 2
    /\ resp.previous = 35
    /\ resp.current = 42
    /\ Len(resp.out) = 1
    /\ resp.out[1].title = "Spending Increase Alert"

-----------------------------------------------------------------------------
\* what the budget detector did in the request answered
BudgetStep == resp.steps[Len(DetectorNames)]

\* C22: for a history that is not empty the budget detector sums the credits
\* and the expenses of the transactions dated in the current calendar month
\* and emits the high-expense-ratio alert (0.85) if expenses/income > 0.9,
\* the excellent-savings-rate insight (0.80) if expenses/income < 0.5, and
\* nothing for a ratio in [0.5, 0.9] or an income of zero.
C22_BudgetOfCurrentMonth ==
    (resp.op = "insights" /\ resp.fault = "none" /\ resp.snap # <<>>) =>
        LET month == SelectSeq(resp.snap, InCurrentMonth)
            income == TotalIncome(month)
            expenses == TotalExpenses(month)
        IN  /\ Len(resp.steps) = Len(DetectorNames)
            /\ ~BudgetStep.raised
            /\ BudgetStep.out =
                IF income > 0 /\ 10 * expenses > 9 * income
                THEN <<Insight("alert", "High Expense Ratio", NoCat, 85, NoDay)>>
                ELSE IF income > 0 /\ 2 * expenses < income
                THEN <<Insight("positive", "Excellent Savings Rate", NoCat, 80, NoDay)>>
                ELSE <<>>

\* C22, the state that refutes it: this month's expenses are above 0.9 of this
\* month's income, and the detector raised on its date comparison
C22_BudgetDetectorRaised ==
    /\ resp.op = "insights"
    /\ resp.fault = "none"
    /\ resp.snap # <<>>
    /\ LET month == SelectSeq(resp.snap, InCurrentMonth)
       IN  TotalIncome(month) > 0 /\ 10 * TotalExpenses(month) > 9 * TotalIncome(month)
    /\ Len(resp.steps) = Len(DetectorNames)
    /\ BudgetStep.raised
    /\ resp.result.value = get_default_insights

-----------------------------------------------------------------------------
\* the place of an insight in the concatenation of the detectors' insights
PlaceIn(gathered, x) == CHOOSE i \in 1..Len(gathered) : gathered[i] = x

\* C23: when the detectors together produce more than 10 insights, the 10
\* returned are produced insights of the highest confidence (none left out has
\* a greater confidence than one returned), in descending order of confidence
\* and, for equal confidence, in the order of the concatenation.
C23_TopTenByConfidence ==
    (resp.op = "insights" /\ resp.fault = "none" /\ resp.snap # <<>>) =>
        LET gathered == OtherDetectorsInsights(resp.snap)
            v == resp.result.value
        IN  Len(gathered) > 10 =>
                /\ Len(v) = 10
                /\ \A i \in 1..Len(v) : v[i] \in Range(gathered)
                /\ \A x \in Range(gathered) \ Range(v) : \A i \in 1..Len(v) :
                        x.confidence_score <= v[i].confidence_score
                /\ \A i, j \in 1..Len(v) : i < j =>
                        \/ v[i].confidence_score > v[j].confidence_score
                        \/ /\ v[i].confidence_score = v[j].confidence_score
                           /\ PlaceIn(gathered, v[i]) < PlaceIn(gathered, v[j])

\* C23, the state that refutes it: four detectors produced 11 insights and
\* the response is the welcome insight alone
C23_ElevenInsightsLost ==
    /\ resp.op = "insights"
    /\ resp.fault = "none"
    /\ Len(Concat(resp.steps)) = 11
    /\ resp.steps[Len(resp.steps)].raised
    /\ resp.result.value = get_default_insights

-----------------------------------------------------------------------------
FracSub(a, b) == FracAdd(a, [n |-> -b.n, d |-> b.d])

\* x <= sqrt(var), for var >= 0
AtMostRoot(x, var) == x.n <= 0 \/ x.n * x.n * var.d <= var.n * x.d * x.d

\* max(0, base - std) <= amount <= base + std for the bounds of a forecast
Bracketed(r) ==
    /\ r.forecast_amount.n >= 0
    /\ AtMostRoot(FracSub(r.confidence_interval_lower.base, r.forecast_amount),
                  r.confidence_interval_lower.var)
    /\ AtMostRoot(FracSub(r.forecast_amount, r.confidence_interval_upper.base),
                  r.confidence_interval_upper.var)

\* C24, as stated: for every forecast computed from history and every positive
\* days_ahead, confidence_lower <= forecast_amount <= confidence_upper.
C24_BoundsBracketForecast ==
    \A r \in ComputedForecasts : Bracketed(r)

\* C24, amended: the same for days_ahead = 30, a forecast_amount that is not
\* negative and monthly totals that are not all equal.
C24_BoundsBracketMonthlyForecast ==
    \A r \in ComputedForecasts :
        (/\ resp.days_ahead = 30
         /\ r.forecast_amount.n >= 0
         /\ r.confidence_interval_lower.var.n > 0) => Bracketed(r)

\* C24, its case: a forecast for 30 days strictly between its bounds
C24_ForecastInsideBounds ==
    \E r \in ComputedForecasts :
        /\ resp.days_ahead = 30
        /\ r.forecast_amount.n > 0
        /\ r.confidence_interval_lower.var.n > 0
        /\ Bracketed(r)
        /\ r.confidence_interval_lower.base = r.forecast_amount

-----------------------------------------------------------------------------
\* C25: in a result computed from a history that is not empty, with no
\* forecasting step raising, a forecast of a category comes with the
\* "Overall Spending" forecast.
C25_CategoryForecastImpliesOverall ==
    (ForecastComputed /\ resp.fault = "none") =>
        ((\E r \in ComputedForecasts : r.category # "Overall Spending") => HasOverallForecast)

\* C25, its case: a category forecast and, last, the overall forecast
C25_CategoryAndOverall ==
    /\ ForecastComputed
    /\ resp.fault = "none"
    /\ Len(resp.result.value) >= 2
    /\ resp.result.value[1].category = "Coffee"
    /\ resp.result.value[Len(resp.result.value)].category = "Overall Spending"

-----------------------------------------------------------------------------
(* The income/expense ratio and the savings rate on their own, on histories  *)
(* of one credit and one debit whose amounts have hundredths.                *)

\* The totals are floats. For whole totals expenses / income and (income -
\* expenses) / income are exact at 0.9 and 0.1; for totals with hundredths the
\* float results of expenses = 9/10 income can fall beyond: these are the
\* incomes (in hundredths, up to 120) for which, as floats, expenses / income
\* > 0.9, resp. (income - expenses) / income < 0.1
FloatRatioAboveNineTenths == {30, 60, 120}

FloatRateBelowTenth == {30, 50, 60, 70, 90, 100, 120}

\* the status of _calculate_income_expense_ratio is concerning or critical:
\* none of ratio <= 0.5, ratio <= 0.7, ratio <= 0.9 holds (totals in hundredths)
RatioConcerning(total_income, total_expenses) ==
    /\ total_income # 0
    /\ \/ 10 * total_expenses > 9 * total_income
       \/ 10 * total_expenses = 9 * total_income /\ total_income \in FloatRatioAboveNineTenths

\* the status of _calculate_savings_rate is fair or negative: none of
\* savings_rate >= 0.3, >= 0.2, >= 0.1 holds (totals in hundredths)
SavingsFair(total_income, total_expenses) ==
    /\ total_income # 0
    /\ \/ 10 * (total_income - total_expenses) < total_income
       \/ 10 * total_expenses = 9 * total_income /\ total_income \in FloatRateBelowTenth

\* the two sub-metrics and the recommendations they ask for
RateIncomeAndSavings ==
    \E total_income \in 0..(2 * MaxCents + 10), total_expenses \in 0..(2 * MaxCents + 10) :
        /\ resp = NoResponse
        /\ resp' = [op |-> "rates", total_income |-> total_income,
                    total_expenses |-> total_expenses,
                    recommendations |->
                        (IF RatioConcerning(total_income, total_expenses)
                         THEN <<RecReduceExpenses>> ELSE <<>>)
                        \o (IF SavingsFair(total_income, total_expenses)
                            THEN <<RecSave>> ELSE <<>>)]
        /\ UNCHANGED db

RatesNext == RateIncomeAndSavings \/ Deliver

RatesSpec == LookupInit /\ [][RatesNext]_vars

\* C26: in a health score computed from debits and credits the income/expense
\* recommendation and the savings recommendation are both present or both
\* absent: present exactly when expenses/income > 0.9, and absent when the
\* income is 0.
C26_RatioAndSavingsAgree ==
    resp.op = "rates" =>
        LET above == resp.total_income > 0 /\ 10 * resp.total_expenses > 9 * resp.total_income
        IN  /\ RecReduceExpenses \in Range(resp.recommendations) <=> above
            /\ RecSave \in Range(resp.recommendations) <=> above

\* C26, the state that refutes it: an income of 1.00 and expenses of 0.90;
\* the savings recommendation without the income/expense one
C26_SavingsMessageAlone ==
    /\ resp.op = "rates"
    /\ resp.total_income = 100
    /\ resp.total_expenses = 90
    /\ resp.recommendations = <<RecSave>>

-----------------------------------------------------------------------------
PraiseGiven == HealthComputed /\ RecGreatJob \in Range(resp.result.value.recommendations)

\* C27, as stated: the positive default recommendation is emitted only when
\* every one of the six sub-metric scores is at least 50.
C27_PraiseOnlyAboveFifty ==
    PraiseGiven => \A name \in Range(MetricNames) : resp.result.value.metrics[name].score >= 50

\* C27, amended: ... only when every sub-metric has a score of at least 50 or
\* the status no_income or no_expenses (whose score is 0).
C27_PraiseOnlyAboveFiftyOrNoData ==
    PraiseGiven =>
        \A name \in Range(MetricNames) :
            \/ resp.result.value.metrics[name].score >= 50
            \/ /\ resp.result.value.metrics[name].status \in {"no_income", "no_expenses"}
               /\ resp.result.value.metrics[name].score = 0

\* C27, its case: the positive message for a history of credits alone, whose
\* category_diversity has score 0
C27_PraiseWithoutExpenses ==
    /\ PraiseGiven
    /\ resp.result.value.metrics.category_diversity.status = "no_expenses"
    /\ resp.result.value.metrics.category_diversity.score = 0
    /\ resp.result.value.metrics.income_expense_ratio.score = 100

-----------------------------------------------------------------------------
\* C28: every anomaly insight names a day whose debit total is greater than the
\* mean of the daily debit totals.
C28_AnomalyDayAboveMean ==
    (resp.op = "insights" /\ resp.fault = "none" /\ resp.snap # <<>>) =>
        LET ds == DailySpending(resp.snap)
            sum == SeqSum([k \in 1..Len(ds) |-> ds[k].total])
        IN  \A i \in 1..Len(AnomalyInsights) :
                \E k \in 1..Len(ds) :
                    /\ ds[k].day = AnomalyInsights[i].day
                    /\ Len(ds) * ds[k].total > sum

\* C28, the state that refutes it: five days of 500 and one of 60, and the
\* anomaly insight names the day of 60
C28_LowDayReported ==
    /\ resp.op = "insights"
    /\ resp.fault = "none"
    /\ Len(resp.snap) >= 20
    /\ Len(AnomalyInsights) = 1
    /\ AnomalyInsights[1].title = "Unusual Spending Day"
    /\ LET ds == DailySpending(resp.snap)
       IN  /\ Len(ds) = 6
           /\ \E k \in 1..Len(ds) : ds[k].day = AnomalyInsights[1].day /\ ds[k].total = 60
           /\ \A k \in 1..Len(ds) : ds[k].day # AnomalyInsights[1].day => ds[k].total = 500

-----------------------------------------------------------------------------
(* PlaidService.sync_user_transactions (backend/app/services/plaid.py). Here *)
(* db holds the synced rows: plaid_transaction_id, amount as Plaid reported  *)
(* it (signed), transaction_type.                                            *)

\* the longest list of transactions one sync receives
MaxBatch == 2

PlaidIds == {"tx-1", "tx-2"}

\* what Plaid may report for a transaction: its id, its signed amount (an
\* outflow is positive), and whether its account is one of the stored accounts
PlaidTransactions ==
    [transaction_id : PlaidIds, amount : {-40, 0, 40}, account_known : BOOLEAN]

RECURSIVE PlaidBatches(_)
PlaidBatches(n) ==
    IF n = 0 THEN {<<>>}
    ELSE PlaidBatches(n - 1)
         \cup {Append(b, t) : b \in {x \in PlaidBatches(n - 1) : Len(x) = n - 1},
                              t \in PlaidTransactions}

\* the row with this plaid_transaction_id, 0 if there is none (scalar_one_or_none)
ExistingTransaction(table, id) ==
    IF \E i \in 1..Len(table) : table[i].plaid_transaction_id = id
    THEN CHOOSE i \in 1..Len(table) : table[i].plaid_transaction_id = id
    ELSE 0

\* the body of the loop over plaid_transactions: the row is updated (its amount,
\* not its transaction_type) or, if its account is stored, added
SyncOne(table, plaid_transaction) ==
    LET i == ExistingTransaction(table, plaid_transaction.transaction_id)
    IN  IF i # 0 THEN [table EXCEPT ![i].amount = plaid_transaction.amount]
        ELSE IF plaid_transaction.account_known
        THEN Append(table, [plaid_transaction_id |-> plaid_transaction.transaction_id,
                            amount |-> plaid_transaction.amount,
                            transaction_type |->
                                IF plaid_transaction.amount > 0 THEN "debit" ELSE "credit"])
        ELSE table

RECURSIVE sync_user_transactions(_, _)
sync_user_transactions(table, plaid_transactions) ==
    IF plaid_transactions = <<>> THEN table
    ELSE sync_user_transactions(SyncOne(table, Head(plaid_transactions)),
                                Tail(plaid_transactions))

\* POST /plaid/sync-transactions: the sync commits what its loop did
SyncUserTransactions ==
    \E plaid_transactions \in PlaidBatches(MaxBatch) :
        /\ resp = NoResponse
        /\ db' = sync_user_transactions(db, plaid_transactions)
        /\ resp' = [op |-> "sync", plaid_transactions |-> plaid_transactions, before |-> db]

SyncNext == SyncUserTransactions \/ Deliver

SyncSpec == LookupInit /\ [][SyncNext]_vars

\* no two rows with one plaid_transaction_id
OnePerPlaidId ==
    \A i, j \in 1..Len(db) : db[i].plaid_transaction_id = db[j].plaid_transaction_id => i = j

\* C29, as stated: after any sequence of syncs every stored synced transaction
\* has transaction_type "debit" exactly when its stored amount is > 0 and
\* "credit" otherwise, and no two rows have one plaid_transaction_id.
C29_TypeFollowsAmount ==
    /\ \A i \in 1..Len(db) :
            db[i].transaction_type = IF db[i].amount > 0 THEN "debit" ELSE "credit"
    /\ OnePerPlaidId

\* C29, the state that refutes it: a sync reported -40 for a transaction stored
\* with 40; the row holds -40 and is still a debit
C29_StaleTypeAfterUpdate ==
    /\ resp.op = "sync"
    /\ \E i \in 1..Len(db) :
        /\ i <= Len(resp.before)
        /\ resp.before[i].amount = 40
        /\ resp.before[i].transaction_type = "debit"
        /\ db[i].amount = -40
        /\ db[i].transaction_type = "debit"
    /\ OnePerPlaidId

-----------------------------------------------------------------------------
(* PlaidService.get_transactions (backend/app/services/plaid.py): the first  *)
(* request and the pagination loop. Here resp is the call's frame: where it  *)
(* stands, len(transactions), total_transactions and the response just       *)
(* received. Plaid chooses every response.                                   *)

\* the most items one page carries
MaxPage == 2

\* the largest total_transactions Plaid reports
MaxTotal == 4

\* response.get('total_transactions', ...) found no such key
Absent == -1

\* what client.transactions_get may do: raise, return a response that is empty
\* or has no 'transactions' key, or return a page of items
PlaidResponses ==
    {[kind |-> "raise", items |-> 0, total_transactions |-> Absent],
     [kind |-> "no_transactions", items |-> 0, total_transactions |-> Absent]}
    \cup [kind : {"page"}, items : 0..MaxPage, total_transactions : {Absent} \cup 0..MaxTotal]

NoPage == [kind |-> "none", items |-> 0, total_transactions |-> Absent]

\* the call is entered and sends its first request
GetTransactions ==
    /\ resp = NoResponse
    /\ resp' = [op |-> "get_transactions", pc |-> "request", first |-> TRUE,
                transactions |-> 0, total_transactions |-> 0, response |-> NoPage]
    /\ UNCHANGED db

\* client.transactions_get(request) comes back
TransactionsGet ==
    /\ resp.op = "get_transactions"
    /\ resp.pc = "request"
    /\ \E r \in PlaidResponses : resp' = [resp EXCEPT !.pc = "response", !.response = r]
    /\ UNCHANGED db

\* the first response: an exception is re-raised, a response without
\* transactions returns [], a page starts the list and fixes total_transactions
FirstResponse ==
    /\ resp.op = "get_transactions"
    /\ resp.pc = "response"
    /\ resp.first
    /\ LET r == resp.response
       IN  resp' = IF r.kind = "raise" THEN [resp EXCEPT !.pc = "raised"]
                   ELSE IF r.kind = "no_transactions" THEN [resp EXCEPT !.pc = "returned"]
                   ELSE [resp EXCEPT !.pc = "while", !.first = FALSE,
                                     !.transactions = r.items,
                                     !.total_transactions =
                                         IF r.total_transactions = Absent THEN r.items
                                         ELSE r.total_transactions]
    /\ UNCHANGED db

\* while len(transactions) < total_transactions: the next request, with
\* offset len(transactions), or the return of the list
WhileTest ==
    /\ resp.op = "get_transactions"
    /\ resp.pc = "while"
    /\ resp' = IF resp.transactions < resp.total_transactions
               THEN [resp EXCEPT !.pc = "request"]
               ELSE [resp EXCEPT !.pc = "returned"]
    /\ UNCHANGED db

\* a response inside the loop: an exception is re-raised, a response without
\* transactions breaks the loop, a page extends the list, whatever its length
PageResponse ==
    /\ resp.op = "get_transactions"
    /\ resp.pc = "response"
    /\ ~resp.first
    /\ LET r == resp.response
       IN  resp' = IF r.kind = "raise" THEN [resp EXCEPT !.pc = "raised"]
                   ELSE IF r.kind = "no_transactions" THEN [resp EXCEPT !.pc = "returned"]
                   ELSE [resp EXCEPT !.pc = "while",
                                     !.transactions = resp.transactions + r.items]
    /\ UNCHANGED db

\* the caller has the list or the exception
ReturnToCaller ==
    /\ resp.op = "get_transactions"
    /\ resp.pc \in {"returned", "raised"}
    /\ resp' = NoResponse
    /\ UNCHANGED db

PagingNext ==
    \/ GetTransactions
    \/ TransactionsGet
    \/ FirstResponse
    \/ WhileTest
    \/ PageResponse
    \/ ReturnToCaller

PagingSpec == LookupInit /\ [][PagingNext]_vars

\* the call and Plaid both keep going: an enabled step of the coroutine is
\* taken, and a request sent is answered
PagingFairSpec ==
    /\ PagingSpec
    /\ WF_vars(GetTransactions)
    /\ WF_vars(TransactionsGet)
    /\ WF_vars(FirstResponse)
    /\ WF_vars(WhileTest)
    /\ WF_vars(PageResponse)
    /\ WF_vars(ReturnToCaller)

InCall == resp.op = "get_transactions" /\ resp.pc \notin {"returned", "raised"}

CallEnded == resp.op = "get_transactions" /\ resp.pc \in {"returned", "raised"}

\* C30, as stated: get_transactions always terminates: whatever Plaid's pages
\* are, a call that was entered returns its list or raises.
C30_GetTransactionsTerminates == InCall ~> CallEnded

\* C30, the state that refutes it: inside the loop a page with a 'transactions'
\* key and no items arrived while total_transactions is larger than the number
\* collected; the loop extends the list by nothing and asks again
C30_EmptyPageInsideLoop ==
    /\ resp.op = "get_transactions"
    /\ resp.pc = "response"
    /\ ~resp.first
    /\ resp.response.kind = "page"
    /\ resp.response.items = 0
    /\ resp.transactions < resp.total_transactions

====
